---- MODULE Spec2Model ----
(***************************************************************************)
(* Model of the orchestration core of mcp-lite: the connection hub         *)
(* (McpHub, src/unnamed/part_004) and the conversation orchestrator        *)
(* (ChatEngine, src/unnamed/part_005).                                     *)
(*                                                                         *)
(* Every async method is cut at its await points: one action per stretch   *)
(* of synchronous code.  Answers of the outside world (transport connect,  *)
(* discovery, tools/call, client close, the LLM) are chosen with \E.       *)
(***************************************************************************)
EXTENDS Integers, Sequences, FiniteSets, TLC

(***************************************************************************)
(* Bounds                                                                  *)
(***************************************************************************)
\* number of clients the hub may open in one behaviour
MaxConns == 2
\* number of hub calls that may be in flight at once
MaxTasks == 2

ServerNames == {"s1", "s2"}
ToolNames == {"t1", "t2"}
ConnIds == 1..MaxConns
TaskIds == 1..MaxTasks

\* tool lists a server may answer to tools/list
Catalogs == {<<"t1">>, <<"t2">>, <<"t1", "t2">>}
\* resource lists a server may answer to resources/list
ResourceCatalogs == {<<"r1">>}

\* server descriptors (McpServerWithName without the name): transport kind
\* and which of command / url is populated
Configs ==
  { [type |-> "stdio", command |-> TRUE,  url |-> FALSE],
    [type |-> "stdio", command |-> FALSE, url |-> FALSE],
    [type |-> "sse",   command |-> FALSE, url |-> TRUE],
    [type |-> "sse",   command |-> FALSE, url |-> FALSE],
    [type |-> "http",  command |-> FALSE, url |-> TRUE] }

\* answers of a tool server to tools/call: content items and its own flag
ToolResponses ==
  { [content |-> <<[type |-> "text", text |-> "hi"]>>, isError |-> FALSE],
    [content |-> <<[type |-> "text", text |-> "hi"]>>, isError |-> TRUE],
    [content |-> <<>>, isError |-> FALSE] }

NoResponse == [content |-> <<>>, isError |-> FALSE]

VARIABLES
  connections,  \* McpHub.connections: insertion-ordered Map name -> connection,
                \* a sequence of [name, conn]
  conns,        \* the McpConnection objects and their clients, by identity
  hubTasks,     \* the hub calls in flight: position and locals of each
  hubDone,      \* the hub call that returned last, with its outcome
  registered    \* what the callers of the hub asked for: the servers added
                \* and not removed or replaced since, each with the tool list
                \* its server answered, in the order of the additions

hubVars == <<connections, conns, hubTasks, hubDone, registered>>

VARIABLES
  messages,     \* ChatEngine.messages, the transcript
  chats,        \* the chat calls in flight: position and locals of each
  chatDone,     \* the chat or executeToolManually call that returned last
  llmIssued,    \* number of tool-call identifiers the LLM has issued
  resolves      \* number of executeToolManually calls made

chatVars == <<messages, chats, chatDone, llmIssued, resolves>>

VARIABLES
  batch,            \* the processFromFile call: its position, options, loop
                    \* index and BatchProcessor.results
  currentToolCalls  \* BatchProcessor.currentToolCalls

batchVars == <<batch, currentToolCalls>>
vars == <<connections, conns, hubTasks, hubDone, registered,
          messages, chats, chatDone, llmIssued, resolves,
          batch, currentToolCalls>>

(***************************************************************************)
(* Helpers on sequences                                                    *)
(***************************************************************************)
Range(s) == {s[i] : i \in 1..Len(s)}

RECURSIVE Concat(_)
Concat(ss) == IF ss = <<>> THEN <<>> ELSE Head(ss) \o Concat(Tail(ss))

(***************************************************************************)
(* McpHub: the Map and its readers                                         *)
(***************************************************************************)
NoConn == [client |-> "none", connected |-> FALSE, tools |-> <<>>, resources |-> <<>>]

\* Map.has
HasServer(map, name) == \E i \in 1..Len(map) : map[i].name = name

\* Map.get (0 stands for undefined)
GetConn(map, name) ==
  IF HasServer(map, name)
  THEN (CHOOSE e \in Range(map) : e.name = name).conn
  ELSE 0

\* Map.set: an existing key keeps its position, a new key goes last
MapSet(map, name, c) ==
  IF HasServer(map, name)
  THEN [i \in 1..Len(map) |->
          IF map[i].name = name THEN [name |-> name, conn |-> c] ELSE map[i]]
  ELSE Append(map, [name |-> name, conn |-> c])

MapDelete(map, name) ==
  SelectSeq(map, LAMBDA e : e.name # name)

\* the connection objects the map holds
MapConns(map) == {map[i].conn : i \in 1..Len(map)}

getServerNames(map) == [i \in 1..Len(map) |-> map[i].name]

\* the bug C1 excludes: the list is overwritten for each session, not extended
getAvailableTools_Overwritten(map, cs) ==
  LET live == SelectSeq(map, LAMBDA e : cs[e.conn].connected)
  IN IF live = <<>> THEN <<>> ELSE cs[live[Len(live)].conn].tools

getAvailableTools(map, cs) ==
  Concat([i \in 1..Len(map) |->
            IF cs[map[i].conn].connected THEN cs[map[i].conn].tools ELSE <<>>])

getAvailableResources(map, cs) ==
  Concat([i \in 1..Len(map) |->
            IF cs[map[i].conn].connected THEN cs[map[i].conn].resources ELSE <<>>])

\* the bug C17 excludes: a stream descriptor is taken without its url
CreateConnectionCheck_UrlOptional(cfg) ==
  IF cfg.type = "stdio"
  THEN (IF ~cfg.command THEN "ConfigurationError" ELSE "")
  ELSE IF cfg.type = "sse" THEN "" ELSE "ConfigurationError"

\* the synchronous checks of createConnection: "" when the transport object
\* is built, else the error thrown
CreateConnectionCheck(cfg) ==
  IF cfg.type = "stdio"
  THEN (IF ~cfg.command THEN "ConfigurationError" ELSE "")
  ELSE IF cfg.type = "sse"
       THEN (IF ~cfg.url THEN "ConfigurationError" ELSE "")
       ELSE "ConfigurationError"

\* the bug C4 excludes: the catalog is not consulted
CallToolCheck_IgnoresFlag(map, cs, serverName, toolName) ==
  LET c == GetConn(map, serverName) IN
  IF c = 0 THEN "NotConnected"
  ELSE IF toolName \notin Range(cs[c].tools) THEN "ToolNotFound"
  ELSE ""

\* the synchronous checks of callTool: "" when the request is sent
CallToolCheck(map, cs, serverName, toolName) ==
  LET c == GetConn(map, serverName) IN
  IF c = 0 \/ ~cs[c].connected THEN "NotConnected"
  ELSE IF toolName \notin Range(cs[c].tools) THEN "ToolNotFound"
  ELSE ""

FreeConnIds == {c \in ConnIds : conns[c].client = "none"}

(***************************************************************************)
(* Hub calls in flight                                                     *)
(***************************************************************************)
Snapshot == [connections |-> connections, conns |-> conns]

NoSnapshot == [connections |-> <<>>, conns |-> [c \in ConnIds |-> NoConn]]

IdleTask == [op |-> "idle", pc |-> "idle", name |-> "", cfg |-> [type |-> "", command |-> FALSE, url |-> FALSE],
             conn |-> 0, old |-> 0, tool |-> "", sent |-> 0, pre |-> NoSnapshot,
             opened |-> 0, discovery |-> "", closeFailed |-> FALSE,
             sessions |-> {}, closing |-> {}, silent |-> FALSE]
\* opened: the number of client.connect calls the hub call made; discovery:
\* which of tools/list and resources/list the server answered ("both",
\* "tools", "resources", "neither"); closeFailed: the client.close() of the
\* removeServer or disconnect in hand threw; sessions: the connections the map
\* held when disconnect was called; closing: those whose client.close() is
\* pending; silent: the server will not answer the request of the call

NoneDone == [op |-> "none", name |-> "", conn |-> 0, old |-> 0,
             tool |-> "", sent |-> 0, outcome |-> "", transport |-> "",
             response |-> NoResponse,
             cfg |-> [type |-> "", command |-> FALSE, url |-> FALSE], opened |-> 0,
             discovery |-> "", closeFailed |-> FALSE, sessions |-> {}]

\* the record of a call that returns or throws
Finished(t, outcome, response) ==
  [op |-> t.op, name |-> t.name, conn |-> t.conn, old |-> t.old,
   tool |-> t.tool, sent |-> t.sent, outcome |-> outcome,
   transport |-> "",
   response |-> response, cfg |-> t.cfg, opened |-> t.opened,
   discovery |-> t.discovery, closeFailed |-> t.closeFailed,
   sessions |-> t.sessions]

\* what the server answered to the two discovery requests
Discovery(toolsOk, resourcesOk) ==
  IF toolsOk THEN (IF resourcesOk THEN "both" ELSE "tools")
  ELSE (IF resourcesOk THEN "resources" ELSE "neither")

HubIdle == \A k \in TaskIds : hubTasks[k].op = "idle"

\* addServer after the optional removeServer: createConnection up to its
\* first await
EnterCreateConnection(k, t) ==
  IF CreateConnectionCheck(t.cfg) # ""
  THEN /\ hubTasks' = [hubTasks EXCEPT ![k] = IdleTask]
       /\ hubDone' = Finished(t, CreateConnectionCheck(t.cfg), NoResponse)
  ELSE /\ hubTasks' = [hubTasks EXCEPT ![k] = [t EXCEPT !.pc = "connect", !.opened = @ + 1]]
       /\ UNCHANGED hubDone

\* the bug C2 excludes: the session registered under the name is not removed
AddServerStart_KeepsOld(k, name, cfg) ==
  /\ hubTasks[k].op = "idle"
  /\ EnterCreateConnection(k, [IdleTask EXCEPT !.op = "add", !.name = name, !.cfg = cfg,
                                               !.old = GetConn(connections, name),
                                               !.pre = Snapshot])
  /\ registered' = MapDelete(registered, name)
  /\ UNCHANGED <<connections, conns, chatVars, batchVars>>

\* addServer: has(name) ? removeServer up to client.close() : createConnection
AddServerStart(k, name, cfg) ==
  /\ hubTasks[k].op = "idle"
  /\ LET t == [IdleTask EXCEPT !.op = "add", !.name = name, !.cfg = cfg,
                               !.old = GetConn(connections, name),
                               !.pre = Snapshot]
     IN IF HasServer(connections, name)
        THEN /\ hubTasks' = [hubTasks EXCEPT ![k] =
                   [t EXCEPT !.pc = "close", !.conn = GetConn(connections, name)]]
             /\ UNCHANGED hubDone
        ELSE EnterCreateConnection(k, t)
  /\ registered' = MapDelete(registered, name)
  /\ UNCHANGED <<connections, conns, chatVars, batchVars>>

\* removeServer: get(name), return when absent, else client.close()
RemoveServerStart(k, name) ==
  /\ hubTasks[k].op = "idle"
  /\ LET t == [IdleTask EXCEPT !.op = "remove", !.name = name,
                               !.old = GetConn(connections, name),
                               !.pre = Snapshot]
     IN IF ~HasServer(connections, name)
        THEN /\ hubDone' = Finished(t, "ok", NoResponse)
             /\ UNCHANGED hubTasks
        ELSE /\ hubTasks' = [hubTasks EXCEPT ![k] =
                   [t EXCEPT !.pc = "close", !.conn = GetConn(connections, name)]]
             /\ UNCHANGED hubDone
  /\ registered' = MapDelete(registered, name)
  /\ UNCHANGED <<connections, conns, chatVars, batchVars>>

\* the bug C19 excludes: the error of client.close() leaves removeServer
DisconnectConnectionSettle_Rethrows(k, closeOk) ==
  /\ hubTasks[k].pc = "close"
  /\ IF closeOk
     THEN /\ conns' = [conns EXCEPT ![hubTasks[k].conn] =
                [@ EXCEPT !.connected = FALSE, !.client = "closed"]]
          /\ hubTasks' = [hubTasks EXCEPT ![k].pc = "delete"]
          /\ UNCHANGED hubDone
     ELSE /\ conns' = [conns EXCEPT ![hubTasks[k].conn].client = "closed"]
          /\ hubTasks' = [hubTasks EXCEPT ![k] = IdleTask]
          /\ hubDone' = Finished([hubTasks[k] EXCEPT !.closeFailed = TRUE],
                                 "CloseError", NoResponse)
  /\ UNCHANGED <<connections, registered, chatVars, batchVars>>

\* disconnectConnection after client.close() settled: a close error is
\* only logged, the flag is cleared either way; "closed" is a client whose
\* close() was called and has settled
DisconnectConnectionSettle(k, closeOk) ==
  /\ hubTasks[k].pc = "close"
  /\ conns' = [conns EXCEPT ![hubTasks[k].conn] =
        [@ EXCEPT !.connected = FALSE, !.client = "closed"]]
  /\ hubTasks' = [hubTasks EXCEPT ![k] = [@ EXCEPT !.pc = "delete",
                                                   !.closeFailed = ~closeOk]]
  /\ UNCHANGED <<connections, hubDone, registered, chatVars, batchVars>>

\* the bug C39 excludes: the entry of a server that is added again keeps
\* its place in the map
RemoveServerDelete_KeepsPlace(k) ==
  /\ hubTasks[k].pc = "delete"
  /\ IF hubTasks[k].op = "remove"
     THEN /\ connections' = MapDelete(connections, hubTasks[k].name)
          /\ hubTasks' = [hubTasks EXCEPT ![k] = IdleTask]
          /\ hubDone' = Finished(hubTasks[k], "ok", NoResponse)
     ELSE /\ UNCHANGED connections
          /\ EnterCreateConnection(k, [hubTasks[k] EXCEPT !.conn = 0, !.closeFailed = FALSE])
  /\ UNCHANGED <<conns, registered, chatVars, batchVars>>

\* removeServer after disconnectConnection: delete(name); a removeServer
\* called by addServer goes on into createConnection
RemoveServerDelete(k) ==
  /\ hubTasks[k].pc = "delete"
  /\ connections' = MapDelete(connections, hubTasks[k].name)
  /\ IF hubTasks[k].op = "remove"
     THEN /\ hubTasks' = [hubTasks EXCEPT ![k] = IdleTask]
          /\ hubDone' = Finished(hubTasks[k], "ok", NoResponse)
     ELSE EnterCreateConnection(k, [hubTasks[k] EXCEPT !.conn = 0, !.closeFailed = FALSE])
  /\ UNCHANGED <<conns, registered, chatVars, batchVars>>

\* disconnect: disconnectConnection is called for every session of the map,
\* each up to its client.close(), and Promise.all awaits them
DisconnectStart(k) ==
  /\ hubTasks[k].op = "idle"
  /\ hubTasks' = [hubTasks EXCEPT ![k] =
        [IdleTask EXCEPT !.op = "disconnect", !.pc = "closeAll", !.pre = Snapshot,
                         !.sessions = MapConns(connections),
                         !.closing = MapConns(connections)]]
  /\ registered' = <<>>
  /\ UNCHANGED <<connections, conns, hubDone, chatVars, batchVars>>

\* the bug C20 excludes: the close error of one session leaves
\* disconnectConnection and rejects the Promise.all of disconnect
DisconnectCloseSettle_Rethrows(k, c, closeOk) ==
  /\ hubTasks[k].pc = "closeAll" /\ c \in hubTasks[k].closing
  /\ IF closeOk
     THEN /\ conns' = [conns EXCEPT ![c] = [@ EXCEPT !.connected = FALSE, !.client = "closed"]]
          /\ hubTasks' = [hubTasks EXCEPT ![k] = [@ EXCEPT !.closing = @ \ {c}]]
          /\ UNCHANGED hubDone
     ELSE /\ conns' = [conns EXCEPT ![c].client = "closed"]
          /\ hubTasks' = [hubTasks EXCEPT ![k] = IdleTask]
          /\ hubDone' = Finished([hubTasks[k] EXCEPT !.closeFailed = TRUE],
                                 "CloseError", NoResponse)
  /\ UNCHANGED <<connections, registered, chatVars, batchVars>>

\* one disconnectConnection of disconnect after its client.close() settled:
\* a close error is only logged, the flag is cleared either way
DisconnectCloseSettle(k, c, closeOk) ==
  /\ hubTasks[k].pc = "closeAll" /\ c \in hubTasks[k].closing
  /\ conns' = [conns EXCEPT ![c] = [@ EXCEPT !.connected = FALSE, !.client = "closed"]]
  /\ hubTasks' = [hubTasks EXCEPT ![k] = [@ EXCEPT !.closing = @ \ {c},
                                                   !.closeFailed = @ \/ ~closeOk]]
  /\ UNCHANGED <<connections, hubDone, registered, chatVars, batchVars>>

\* disconnect after Promise.all: connections.clear()
DisconnectClear(k) ==
  /\ hubTasks[k].pc = "closeAll" /\ hubTasks[k].closing = {}
  /\ connections' = <<>>
  /\ hubTasks' = [hubTasks EXCEPT ![k] = IdleTask]
  /\ hubDone' = Finished(hubTasks[k], "ok", NoResponse)
  /\ UNCHANGED <<conns, registered, chatVars, batchVars>>

\* the bug C22 excludes: the session is put into the map once its transport
\* is open, before its catalogs are discovered
ConnectSettle_RegistersEarly(k, ok) ==
  /\ hubTasks[k].pc = "connect"
  /\ IF ok
     THEN /\ FreeConnIds # {}
          /\ LET c == CHOOSE x \in FreeConnIds : \A y \in FreeConnIds : x <= y IN
             /\ conns' = [conns EXCEPT ![c] =
                   [NoConn EXCEPT !.client = "open", !.connected = TRUE]]
             /\ connections' = MapSet(connections, hubTasks[k].name, c)
             /\ hubTasks' = [hubTasks EXCEPT ![k] = [@ EXCEPT !.pc = "discover", !.conn = c]]
          /\ UNCHANGED hubDone
     ELSE /\ hubTasks' = [hubTasks EXCEPT ![k] = IdleTask]
          /\ hubDone' = Finished(hubTasks[k], "ConnectionError", NoResponse)
          /\ UNCHANGED <<connections, conns>>
  /\ UNCHANGED <<registered, chatVars, batchVars>>

\* createConnection after client.connect(transport) settled
ConnectSettle(k, ok) ==
  /\ hubTasks[k].pc = "connect"
  /\ IF ok
     THEN /\ FreeConnIds # {}
          /\ LET c == CHOOSE x \in FreeConnIds : \A y \in FreeConnIds : x <= y IN
             /\ conns' = [conns EXCEPT ![c] =
                   [NoConn EXCEPT !.client = "open"]]
             /\ hubTasks' = [hubTasks EXCEPT ![k] = [@ EXCEPT !.pc = "discover", !.conn = c]]
          /\ UNCHANGED hubDone
     ELSE /\ hubTasks' = [hubTasks EXCEPT ![k] = IdleTask]
          /\ hubDone' = Finished(hubTasks[k], "ConnectionError", NoResponse)
          /\ UNCHANGED conns
  /\ UNCHANGED <<connections, registered, chatVars, batchVars>>

\* the bug C3 excludes: the session is registered before the tool discovery
\* is known to have succeeded
DiscoverSettle_RegistersFirst(k, toolsOk, tools, resourcesOk, resources) ==
  LET t == [hubTasks[k] EXCEPT !.discovery = Discovery(toolsOk, resourcesOk)] IN
  /\ hubTasks[k].pc = "discover"
  /\ conns' = [conns EXCEPT ![hubTasks[k].conn] =
        [@ EXCEPT !.connected = TRUE, !.tools = IF toolsOk THEN tools ELSE <<>>,
                  !.resources = IF resourcesOk THEN resources ELSE <<>>]]
  /\ connections' = MapSet(connections, hubTasks[k].name, hubTasks[k].conn)
  /\ IF toolsOk
     THEN /\ hubDone' = Finished(t, "ok", NoResponse)
          /\ registered' = Append(MapDelete(registered, hubTasks[k].name),
                                  [name |-> hubTasks[k].name, tools |-> tools])
     ELSE /\ hubDone' = Finished(t, "ConnectionError", NoResponse)
          /\ UNCHANGED registered
  /\ hubTasks' = [hubTasks EXCEPT ![k] = IdleTask]
  /\ UNCHANGED <<chatVars, batchVars>>

\* the bug C18 excludes: a failed resources/list fails createConnection
DiscoverSettle_ResourcesRequired(k, toolsOk, tools, resourcesOk, resources) ==
  LET t == [hubTasks[k] EXCEPT !.discovery = Discovery(toolsOk, resourcesOk)] IN
  /\ hubTasks[k].pc = "discover"
  /\ IF toolsOk /\ resourcesOk
     THEN /\ conns' = [conns EXCEPT ![hubTasks[k].conn] =
                [@ EXCEPT !.connected = TRUE, !.tools = tools, !.resources = resources]]
          /\ connections' = MapSet(connections, hubTasks[k].name, hubTasks[k].conn)
          /\ hubDone' = Finished(t, "ok", NoResponse)
          /\ registered' = Append(MapDelete(registered, hubTasks[k].name),
                                  [name |-> hubTasks[k].name, tools |-> tools])
     ELSE /\ hubDone' = Finished(t, "ConnectionError", NoResponse)
          /\ UNCHANGED <<connections, conns, registered>>
  /\ hubTasks' = [hubTasks EXCEPT ![k] = IdleTask]
  /\ UNCHANGED <<chatVars, batchVars>>

\* createConnection after tools/list and resources/list settled, and the
\* connections.set of addServer: a resources/list failure is an empty list,
\* a tools/list failure is thrown
DiscoverSettle(k, toolsOk, tools, resourcesOk, resources) ==
  LET t == [hubTasks[k] EXCEPT !.discovery = Discovery(toolsOk, resourcesOk)] IN
  /\ hubTasks[k].pc = "discover"
  /\ IF toolsOk
     THEN /\ conns' = [conns EXCEPT ![hubTasks[k].conn] =
                [@ EXCEPT !.connected = TRUE, !.tools = tools,
                          !.resources = IF resourcesOk THEN resources ELSE <<>>]]
          /\ connections' = MapSet(connections, hubTasks[k].name, hubTasks[k].conn)
          /\ hubDone' = Finished(t, "ok", NoResponse)
          /\ registered' = Append(MapDelete(registered, hubTasks[k].name),
                                  [name |-> hubTasks[k].name, tools |-> tools])
     ELSE /\ hubDone' = Finished(t, "ConnectionError", NoResponse)
          /\ UNCHANGED <<connections, conns, registered>>
  /\ hubTasks' = [hubTasks EXCEPT ![k] = IdleTask]
  /\ UNCHANGED <<chatVars, batchVars>>

\* callTool up to client.request
CallToolStart(k, serverName, toolName) ==
  /\ hubTasks[k].op = "idle"
  /\ LET t == [IdleTask EXCEPT !.op = "call", !.name = serverName, !.tool = toolName,
                               !.old = GetConn(connections, serverName),
                               !.pre = Snapshot]
         err == CallToolCheck(connections, conns, serverName, toolName)
     IN IF err # ""
        THEN /\ hubDone' = Finished(t, err, NoResponse)
             /\ UNCHANGED hubTasks
        ELSE /\ hubTasks' = [hubTasks EXCEPT ![k] =
                   [t EXCEPT !.pc = "request", !.sent = 1,
                             !.conn = GetConn(connections, serverName)]]
             /\ UNCHANGED hubDone
  /\ UNCHANGED <<connections, conns, registered, chatVars, batchVars>>

\* callTool after client.request settled
CallToolSettle(k, ok, response) ==
  /\ hubTasks[k].pc = "request"
  /\ hubDone' = IF ok
                THEN [Finished(hubTasks[k], "ok", response) EXCEPT !.transport = "answered"]
                ELSE [Finished(hubTasks[k], "ToolExecutionError", NoResponse)
                        EXCEPT !.transport = "failed"]
  /\ hubTasks' = [hubTasks EXCEPT ![k] = IdleTask]
  /\ UNCHANGED <<connections, conns, registered, chatVars, batchVars>>

HubInit ==
  /\ connections = <<>>
  /\ conns = [c \in ConnIds |-> NoConn]
  /\ hubTasks = [k \in TaskIds |-> IdleTask]
  /\ hubDone = NoneDone
  /\ registered = <<>>

\* the steps that go on with a hub call in flight
HubContinue ==
  \E k \in TaskIds :
    \/ \E closeOk \in BOOLEAN : DisconnectConnectionSettle(k, closeOk)
    \/ RemoveServerDelete(k)
    \/ \E ok \in BOOLEAN : ConnectSettle(k, ok)
    \/ \E toolsOk \in BOOLEAN, tools \in Catalogs,
          resourcesOk \in BOOLEAN, resources \in ResourceCatalogs :
         DiscoverSettle(k, toolsOk, tools, resourcesOk, resources)
    \/ \E ok \in BOOLEAN, response \in ToolResponses : CallToolSettle(k, ok, response)

\* the slot a new hub call takes
FreeTask == CHOOSE k \in TaskIds :
              hubTasks[k].op = "idle" /\ \A m \in TaskIds : hubTasks[m].op = "idle" => k <= m

\* hub calls made one after the other, each awaited before the next
AddServerAwaited ==
  HubIdle /\ \E name \in ServerNames, cfg \in Configs : AddServerStart(FreeTask, name, cfg)

RemoveServerAwaited ==
  HubIdle /\ \E name \in ServerNames : RemoveServerStart(FreeTask, name)

CallToolAwaited ==
  HubIdle /\ \E name \in ServerNames, tool \in ToolNames : CallToolStart(FreeTask, name, tool)

HubNext == AddServerAwaited \/ RemoveServerAwaited \/ CallToolAwaited \/ HubContinue

(***************************************************************************)
(* ChatEngine                                                              *)
(***************************************************************************)
\* number of chat calls that may be in flight at once on one engine
MaxChats == 2
\* largest maxTurns option a caller passes
MaxTurnsOption == 3
\* chat calls start only while the transcript can take their turns
MaxTranscript == 4
\* number of executeToolManually calls in one behaviour
MaxResolves == 1

ChatIds == 1..MaxChats
UserInputs == {"q"}
LlmTexts == {"a", "b"}

\* argument payloads the LLM emits: one that JSON.parse accepts, one it rejects
ArgStrings == {"{\"text\":\"hi\"}", "{oops"}

\* JSON.parse on the payloads above
JsonParse(str) ==
  IF str = "{\"text\":\"hi\"}"
  THEN [ok |-> TRUE, value |-> [text |-> "hi"]]
  ELSE [ok |-> FALSE, value |-> [text |-> ""]]

\* the tool-call lists of an LLM response, before their identifiers:
\* "t1" is offered by several servers, "t2" by one, "tx" by none
LlmCallLists ==
  { <<>>,
    <<[name |-> "t1", arguments |-> "{\"text\":\"hi\"}"]>>,
    <<[name |-> "tx", arguments |-> "{\"text\":\"hi\"}"]>>,
    <<[name |-> "t1", arguments |-> "{oops"],
      [name |-> "t2", arguments |-> "{\"text\":\"hi\"}"]>> }

Message(role, content, toolCalls, toolResults) ==
  [role |-> role, content |-> content, toolCalls |-> toolCalls, toolResults |-> toolResults]

\* the identifiers are the LLM's: fresh for every tool call it emits
WithIds(calls, base) ==
  [i \in 1..Len(calls) |->
     [id |-> base + i, name |-> calls[i].name, arguments |-> calls[i].arguments]]

RECURSIVE JoinLines(_)
JoinLines(parts) ==
  IF Len(parts) = 0 THEN <<>>
  ELSE IF Len(parts) = 1 THEN <<parts[1]>>
  ELSE <<parts[1], "\n">> \o JoinLines(Tail(parts))

\* the bug C29 excludes: the answer of the server is dropped and the fixed
\* text is the result
FormatResponse_Acknowledges(response) == <<"Tool executed successfully">>

\* executeToolCall's formatting of a tool response: the texts, "[type]" for
\* the other items, joined by newlines; the fixed text when that is empty
FormatResponse(response) ==
  LET parts == [i \in 1..Len(response.content) |->
                  IF response.content[i].type = "text" /\ response.content[i].text # ""
                  THEN response.content[i].text
                  ELSE "[" \o response.content[i].type \o "]"]
  IN IF parts = <<>> THEN <<"Tool executed successfully">> ELSE JoinLines(parts)

IdleChat == [pc |-> "idle", maxTurns |-> 0, auto |-> FALSE, turnCount |-> 0,
             finalResponse |-> "", content |-> "", toolCalls |-> <<>>,
             results |-> <<>>, idx |-> 0, serverNames |-> <<>>, probe |-> 0,
             start |-> 0, llmCalls |-> 0, hubCalls |-> 0, requests |-> 0,
             observer |-> FALSE, notes |-> <<>>, rec |-> 0,
             input |-> <<>>, own |-> <<>>]
\* observer: options.onToolExecution is given; notes: what it was called with;
\* rec: the batch record whose processQuestion made the call (0: another caller);
\* input: the messages handed to the last llm.chat; own: the turns this call pushed

\* one call of options.onToolExecution (0 and "" for fields not given)
Notify(c, type, toolCallId, toolName) ==
  IF c.observer
  THEN [c EXCEPT !.notes = Append(@, [type |-> type, toolCallId |-> toolCallId,
                                      toolName |-> toolName])]
  ELSE c

NoChatDone == [op |-> "none", outcome |-> "", text |-> "", ceiling |-> FALSE,
               halted |-> FALSE, maxTurns |-> 0, auto |-> FALSE, start |-> 0,
               llmCalls |-> 0, hubCalls |-> 0, requests |-> 0, id |-> 0,
               before |-> <<>>]

ChatIdle == \A j \in ChatIds : chats[j].pc = "idle"

\* the first server at or after position p whose callTool sends the request
\* (0 when callTool throws on each of them)
RECURSIVE ProbeFrom(_, _, _, _, _)
\* the bug C31 excludes: the last server that takes the request is tried
ProbeFrom_LastServer(map, cs, names, p, toolName) ==
  LET hits == {q \in p..Len(names) : CallToolCheck(map, cs, names[q], toolName) = ""}
  IN IF hits = {} THEN 0 ELSE CHOOSE q \in hits : \A m \in hits : m <= q

ProbeFrom(map, cs, names, p, toolName) ==
  IF p > Len(names) THEN 0
  ELSE IF CallToolCheck(map, cs, names[p], toolName) = "" THEN p
  ELSE ProbeFrom(map, cs, names, p + 1, toolName)

\* the bug C7 excludes: the catch records nothing for the failed call
WithErrorResult_Dropped(c, message) == [c EXCEPT !.idx = @ + 1]

\* the bug C25 excludes: with an observer the failure is reported to it in
\* place of the error result
WithErrorResult_ReportsOnly(c, message) ==
  IF c.observer
  THEN [Notify(c, "tool_error", c.toolCalls[c.idx].id, c.toolCalls[c.idx].name)
          EXCEPT !.idx = @ + 1]
  ELSE [c EXCEPT !.results = Append(@, [toolCallId |-> c.toolCalls[c.idx].id,
                                        content |-> <<"Error: ">> \o message,
                                        isError |-> TRUE]),
                 !.idx = @ + 1]

\* the catch of executeToolCalls: an error result for the current call
WithErrorResult(c, message) ==
  [Notify(c, "tool_error", c.toolCalls[c.idx].id, c.toolCalls[c.idx].name)
     EXCEPT !.results = Append(@, [toolCallId |-> c.toolCalls[c.idx].id,
                                   content |-> <<"Error: ">> \o message,
                                   isError |-> TRUE]),
            !.idx = @ + 1]

\* executeToolCall probing the servers from position p on: up to the request
\* it sends, or to its throw when no server is left
Probe(c, map, cs, p) ==
  LET q == ProbeFrom(map, cs, c.serverNames, p, c.toolCalls[c.idx].name) IN
  IF q = 0
  THEN [WithErrorResult(c, <<"No server could execute tool ", c.toolCalls[c.idx].name>>)
          EXCEPT !.hubCalls = @ + (Len(c.serverNames) + 1 - p), !.pc = "next"]
  ELSE [c EXCEPT !.pc = "tool", !.probe = q,
                 !.hubCalls = @ + (q + 1 - p), !.requests = @ + 1]

\* the bug C8 excludes: the first failed call ends the turn's execution
RECURSIVE ExecuteToolCalls(_, _, _)
ExecuteToolCalls_StopsAtFailure(c, map, cs) ==
  IF c.idx > Len(c.toolCalls) THEN [c EXCEPT !.pc = "executed"]
  ELSE LET call == c.toolCalls[c.idx] IN
    IF ~JsonParse(call.arguments).ok
    THEN [WithErrorResult(c, <<"SyntaxError">>) EXCEPT !.pc = "executed"]
    ELSE LET s == Notify(c, "tool_start", call.id, call.name) IN
    IF call.name \notin Range(getAvailableTools(map, cs))
    THEN [WithErrorResult(s, <<"Tool ", call.name, " not found">>) EXCEPT !.pc = "executed"]
    ELSE LET probed == Probe([s EXCEPT !.serverNames = getServerNames(map)], map, cs, 1) IN
         IF probed.pc = "tool" THEN probed ELSE [probed EXCEPT !.pc = "executed"]

\* executeToolCalls from the call at c.idx on, up to the next request sent to
\* a server (pc "tool") or to the end of the list (pc "executed")
ExecuteToolCalls(c, map, cs) ==
  IF c.idx > Len(c.toolCalls) THEN [c EXCEPT !.pc = "executed"]
  ELSE LET call == c.toolCalls[c.idx] IN
    IF ~JsonParse(call.arguments).ok
    THEN ExecuteToolCalls(WithErrorResult(c, <<"SyntaxError">>), map, cs)
    ELSE LET s == Notify(c, "tool_start", call.id, call.name) IN
    IF call.name \notin Range(getAvailableTools(map, cs))
    THEN ExecuteToolCalls(WithErrorResult(s, <<"Tool ", call.name, " not found">>), map, cs)
    ELSE LET probed == Probe([s EXCEPT !.serverNames = getServerNames(map)], map, cs, 1) IN
         IF probed.pc = "tool" THEN probed ELSE ExecuteToolCalls(probed, map, cs)

\* the BatchProcessor's onToolExecution closure called with one notification
ApplyNote(records, n) ==
  LET hits == {i \in 1..Len(records) : records[i].toolCallId = n.toolCallId}
      first == CHOOSE i \in hits : \A m \in hits : i <= m
  IN IF n.type = "tool_start" /\ n.toolName # ""
     THEN IF n.toolCallId # 0 /\ hits = {}
          THEN Append(records, [toolCallId |-> n.toolCallId, toolName |-> n.toolName,
                                output |-> "", success |-> FALSE])
          ELSE records
     ELSE IF n.type = "tool_complete" /\ n.toolCallId # 0 /\ hits # {}
     THEN [records EXCEPT ![first].output = "output", ![first].success = TRUE]
     ELSE IF n.type = "tool_error" /\ n.toolCallId # 0 /\ hits # {}
     THEN [records EXCEPT ![first].output = "error", ![first].success = FALSE]
     ELSE records

RECURSIVE ApplyNotes(_, _)
ApplyNotes(records, ns) ==
  IF ns = <<>> THEN records ELSE ApplyNotes(ApplyNote(records, Head(ns)), Tail(ns))

\* currentToolCalls after the notifications a chat call of processQuestion
\* made between two of its suspensions
Observe(records, before, after) ==
  IF after.rec = 0 THEN records
  ELSE ApplyNotes(records, SubSeq(after.notes, Len(before.notes) + 1, Len(after.notes)))

\* a chat call that ended: the one processQuestion awaits stays settled until
\* processQuestion resumes
Settled(c, outcome) == IF c.rec = 0 THEN IdleChat ELSE [c EXCEPT !.pc = outcome]

\* the end of chat: the ceiling is logged when turnCount >= maxTurns
Return(j, c, halted) ==
  /\ chats' = [chats EXCEPT ![j] = Settled(c, "returned")]
  /\ chatDone' = [NoChatDone EXCEPT !.op = "chat", !.outcome = "returned",
                    !.text = c.finalResponse, !.ceiling = (c.turnCount >= c.maxTurns),
                    !.halted = halted,
                    !.maxTurns = c.maxTurns, !.auto = c.auto, !.start = c.start,
                    !.llmCalls = c.llmCalls, !.hubCalls = c.hubCalls,
                    !.requests = c.requests]

\* the bug C6 excludes: the loop test lets one turn too many through
LoopHead_OneTooMany(j, c) ==
  IF c.turnCount <= c.maxTurns
  THEN /\ chats' = [chats EXCEPT ![j] =
             [c EXCEPT !.pc = "llm", !.turnCount = @ + 1, !.llmCalls = @ + 1,
                       !.content = "", !.toolCalls = <<>>, !.results = <<>>,
                       !.idx = 0, !.serverNames = <<>>, !.probe = 0,
                       !.input = messages']]
       /\ UNCHANGED chatDone
  ELSE Return(j, c, FALSE)

\* the head of the while loop: the next LLM call, or the end of chat
LoopHead(j, c) ==
  IF c.turnCount < c.maxTurns
  THEN /\ chats' = [chats EXCEPT ![j] =
             [c EXCEPT !.pc = "llm", !.turnCount = @ + 1, !.llmCalls = @ + 1,
                       !.content = "", !.toolCalls = <<>>, !.results = <<>>,
                       !.idx = 0, !.serverNames = <<>>, !.probe = 0,
                       !.input = messages']]
       /\ UNCHANGED chatDone
  ELSE Return(j, c, FALSE)

\* the bug C5 excludes: the assistant message is pushed without its results
AfterExecute_WithoutResults(j, c) ==
  IF c.pc = "tool"
  THEN /\ chats' = [chats EXCEPT ![j] = c]
       /\ currentToolCalls' = Observe(currentToolCalls, chats[j], c)
       /\ UNCHANGED <<messages, chatDone>>
  ELSE LET msg == Message("assistant", c.content, c.toolCalls, <<>>)
           d == Notify(c, "tool_complete", 0, "")
       IN /\ messages' = Append(messages, msg)
          /\ currentToolCalls' = Observe(currentToolCalls, chats[j], d)
          /\ LoopHead(j, [d EXCEPT !.own = Append(@, msg)])

\* chat after executeToolCalls moved on: suspended on a tools/call, or the
\* assistant message is pushed with its results, the summary is notified and
\* the loop goes round
AfterExecute(j, c) ==
  IF c.pc = "tool"
  THEN /\ chats' = [chats EXCEPT ![j] = c]
       /\ currentToolCalls' = Observe(currentToolCalls, chats[j], c)
       /\ UNCHANGED <<messages, chatDone>>
  ELSE LET msg == Message("assistant", c.content, c.toolCalls, c.results)
           d == Notify(c, "tool_complete", 0, "")
       IN /\ messages' = Append(messages, msg)
          /\ currentToolCalls' = Observe(currentToolCalls, chats[j], d)
          /\ LoopHead(j, [d EXCEPT !.own = Append(@, msg)])

\* the bug C24 excludes: chat starts from an emptied transcript
ChatBegin_StartsOver(j, userInput, maxTurns, auto, observer, rec) ==
  /\ chats[j].pc = "idle"
  /\ LET msg == Message("user", userInput, <<>>, <<>>) IN
     /\ messages' = <<msg>>
     /\ LoopHead(j, [IdleChat EXCEPT !.maxTurns = maxTurns, !.auto = auto,
                                     !.start = 0, !.observer = observer,
                                     !.rec = rec, !.own = <<msg>>])
  /\ UNCHANGED <<llmIssued, resolves, hubVars>>

\* chat up to its first LLM call
ChatBegin(j, userInput, maxTurns, auto, observer, rec) ==
  /\ chats[j].pc = "idle"
  /\ LET msg == Message("user", userInput, <<>>, <<>>) IN
     /\ messages' = Append(messages, msg)
     /\ LoopHead(j, [IdleChat EXCEPT !.maxTurns = maxTurns, !.auto = auto,
                                     !.start = Len(messages), !.observer = observer,
                                     !.rec = rec, !.own = <<msg>>])
  /\ UNCHANGED <<llmIssued, resolves, hubVars>>

\* a chat call of the interactive callers, the transcript kept within its bound
ChatStart(j, userInput, maxTurns, auto) ==
  /\ Len(messages) + 1 + maxTurns <= MaxTranscript
  /\ ChatBegin(j, userInput, maxTurns, auto, FALSE, 0)
  /\ UNCHANGED batchVars

\* the bug C40 excludes: the turns of the chat are taken back when the LLM
\* call throws
LlmThrows_RollsBack(j) ==
  /\ chats[j].pc = "llm"
  /\ chats' = [chats EXCEPT ![j] = Settled(chats[j], "threw")]
  /\ chatDone' = [NoChatDone EXCEPT !.op = "chat", !.outcome = "LlmError",
                    !.maxTurns = chats[j].maxTurns, !.auto = chats[j].auto,
                    !.start = chats[j].start, !.llmCalls = chats[j].llmCalls,
                    !.hubCalls = chats[j].hubCalls, !.requests = chats[j].requests]
  /\ messages' = SubSeq(messages, 1, chats[j].start)
  /\ UNCHANGED <<llmIssued, resolves, hubVars, batchVars>>

\* chat after llm.chat threw: the error leaves chat
LlmThrows(j) ==
  /\ chats[j].pc = "llm"
  /\ chats' = [chats EXCEPT ![j] = Settled(chats[j], "threw")]
  /\ chatDone' = [NoChatDone EXCEPT !.op = "chat", !.outcome = "LlmError",
                    !.maxTurns = chats[j].maxTurns, !.auto = chats[j].auto,
                    !.start = chats[j].start, !.llmCalls = chats[j].llmCalls,
                    !.hubCalls = chats[j].hubCalls, !.requests = chats[j].requests]
  /\ UNCHANGED <<messages, llmIssued, resolves, hubVars, batchVars>>

\* the bug C9 excludes: the tool calls are executed whatever autoExecuteTools
LlmAnswers_AlwaysExecutes(j, text, calls) ==
  /\ chats[j].pc = "llm"
  /\ llmIssued' = llmIssued + Len(calls)
  /\ LET c == [chats[j] EXCEPT !.finalResponse = text, !.content = text,
                               !.toolCalls = WithIds(calls, llmIssued)]
     IN IF Len(calls) = 0
        THEN /\ messages' = Append(messages, Message("assistant", text, <<>>, <<>>))
             /\ Return(j, c, FALSE)
             /\ UNCHANGED currentToolCalls
        ELSE AfterExecute(j, ExecuteToolCalls([Notify(c, "tool_start", 0, "") EXCEPT !.idx = 1],
                                              connections, conns))
  /\ UNCHANGED <<resolves, hubVars, batch>>

\* chat after llm.chat answered
LlmAnswers(j, text, calls) ==
  /\ chats[j].pc = "llm"
  /\ llmIssued' = llmIssued + Len(calls)
  /\ LET c == [chats[j] EXCEPT !.finalResponse = text, !.content = text,
                               !.toolCalls = WithIds(calls, llmIssued)]
     IN IF Len(calls) = 0
        THEN /\ messages' = Append(messages, Message("assistant", text, <<>>, <<>>))
             /\ Return(j, c, FALSE)
             /\ UNCHANGED currentToolCalls
        ELSE IF c.auto
        THEN AfterExecute(j, ExecuteToolCalls([Notify(c, "tool_start", 0, "") EXCEPT !.idx = 1],
                                              connections, conns))
        ELSE /\ messages' = Append(messages, Message("assistant", text, c.toolCalls, <<>>))
             /\ Return(j, c, TRUE)
             /\ UNCHANGED currentToolCalls
  /\ UNCHANGED <<resolves, hubVars, batch>>

\* the bug C36 excludes: the flag of the server's answer is the flag of the
\* result
ToolSettles_CarriesFlag(j, ok, response) ==
  /\ chats[j].pc = "tool"
  /\ LET c == chats[j]
         answered == [Notify(c, "tool_complete", c.toolCalls[c.idx].id, c.toolCalls[c.idx].name)
                        EXCEPT !.results = Append(@, [toolCallId |-> c.toolCalls[c.idx].id,
                                                      content |-> FormatResponse(response),
                                                      isError |-> response.isError]),
                               !.idx = @ + 1]
         probed == Probe(c, connections, conns, c.probe + 1)
     IN AfterExecute(j, IF ok THEN ExecuteToolCalls(answered, connections, conns)
                        ELSE IF probed.pc = "tool" THEN probed
                        ELSE ExecuteToolCalls(probed, connections, conns))
  /\ UNCHANGED <<llmIssued, resolves, hubVars, batch>>

\* the bug C30 excludes: the result of the call that settled is put before
\* the results of the calls that ran earlier
ToolSettles_ResultFirst(j, ok, response) ==
  /\ chats[j].pc = "tool"
  /\ LET c == chats[j]
         answered == [Notify(c, "tool_complete", c.toolCalls[c.idx].id, c.toolCalls[c.idx].name)
                        EXCEPT !.results = <<[toolCallId |-> c.toolCalls[c.idx].id,
                                              content |-> FormatResponse(response),
                                              isError |-> FALSE]>> \o @,
                               !.idx = @ + 1]
         probed == Probe(c, connections, conns, c.probe + 1)
     IN AfterExecute(j, IF ok THEN ExecuteToolCalls(answered, connections, conns)
                        ELSE IF probed.pc = "tool" THEN probed
                        ELSE ExecuteToolCalls(probed, connections, conns))
  /\ UNCHANGED <<llmIssued, resolves, hubVars, batch>>

\* executeToolCall after the tools/call of the probed server settled: its
\* answer is the result, its failure moves the probe to the next server
ToolSettles(j, ok, response) ==
  /\ chats[j].pc = "tool"
  /\ LET c == chats[j]
         answered == [Notify(c, "tool_complete", c.toolCalls[c.idx].id, c.toolCalls[c.idx].name)
                        EXCEPT !.results = Append(@, [toolCallId |-> c.toolCalls[c.idx].id,
                                                      content |-> FormatResponse(response),
                                                      isError |-> FALSE]),
                               !.idx = @ + 1]
         probed == Probe(c, connections, conns, c.probe + 1)
     IN AfterExecute(j, IF ok THEN ExecuteToolCalls(answered, connections, conns)
                        ELSE IF probed.pc = "tool" THEN probed
                        ELSE ExecuteToolCalls(probed, connections, conns))
  /\ UNCHANGED <<llmIssued, resolves, hubVars, batch>>

\* the bug C10 excludes: the last assistant message with tool calls is taken,
\* whatever their identifiers
FindToolCall_AnyCall(msgs, toolCallId) ==
  LET hits == {i \in 1..Len(msgs) : msgs[i].role = "assistant" /\ msgs[i].toolCalls # <<>>}
  IN IF hits = {} THEN 0 ELSE CHOOSE i \in hits : \A m \in hits : m <= i

\* the position of the last assistant message with a tool call of this
\* identifier (0 when there is none)
FindToolCall(msgs, toolCallId) ==
  LET hits == {i \in 1..Len(msgs) :
                 /\ msgs[i].role = "assistant"
                 /\ \E n \in 1..Len(msgs[i].toolCalls) : msgs[i].toolCalls[n].id = toolCallId}
  IN IF hits = {} THEN 0 ELSE CHOOSE i \in hits : \A m \in hits : m <= i

executeToolManually(toolCallId, result, isError) ==
  /\ resolves < MaxResolves
  /\ resolves' = resolves + 1
  /\ LET i == FindToolCall(messages, toolCallId) IN
     IF i = 0
     THEN /\ chatDone' = [NoChatDone EXCEPT !.op = "resolve", !.outcome = "UnknownToolCall",
                                            !.id = toolCallId, !.before = messages]
          /\ UNCHANGED messages
     ELSE /\ messages' = [messages EXCEPT ![i].toolResults =
                            Append(@, [toolCallId |-> toolCallId, content |-> <<result>>,
                                       isError |-> isError])]
          /\ chatDone' = [NoChatDone EXCEPT !.op = "resolve", !.outcome = "returned",
                                            !.id = toolCallId, !.before = messages]
  /\ UNCHANGED <<chats, llmIssued, hubVars, batchVars>>

ChatInit ==
  /\ messages = <<>>
  /\ chats = [j \in ChatIds |-> IdleChat]
  /\ chatDone = NoChatDone
  /\ llmIssued = 0
  /\ resolves = 0

\* number of records of the input file
MaxRecords == 2
\* number of records of an input file that is processed in chunks
MaxChunkedRecords == 3
\* the records the bookkeeping of a run has room for
RecordSlots == 1..MaxChunkedRecords

\* clearMessages: the transcript is replaced by an empty one
clearMessages ==
  /\ messages' = <<>>
  /\ UNCHANGED <<chats, chatDone, llmIssued, resolves, hubVars, batchVars>>

\* addMessage: one turn of the given role is pushed
addMessage(content, role) ==
  /\ messages' = Append(messages, Message(role, content, <<>>, <<>>))
  /\ UNCHANGED <<chats, chatDone, llmIssued, resolves, hubVars, batchVars>>

\* questions, maxConcurrency, continueOnError: what processFromFile was given;
\* results: BatchProcessor.results; next: the record the loop calls
\* processQuestion for next; chunkStart..chunkEnd: the records of the chunk in
\* hand (one record in the sequential path); number: the questionNumber each
\* processQuestion call was given; ctxQueue: the calls suspended on addMessage;
\* settled: the results Promise.allSettled holds; started: the records in the
\* order processQuestion was called for them; failed: the records whose chat
\* call threw; arrived: the records in the order their processQuestion returned
NoBatch == [pc |-> "idle", questions |-> <<>>, maxConcurrency |-> 1,
            continueOnError |-> TRUE, results |-> <<>>, next |-> 0,
            chunkStart |-> 0, chunkEnd |-> 0,
            number |-> [r \in RecordSlots |-> 0], ctxQueue |-> <<>>,
            settled |-> [r \in RecordSlots |->
                          [rec |-> 0, number |-> 0, success |-> FALSE, response |-> "",
                           toolCalls |-> <<>>, turns |-> <<>>]],
            started |-> <<>>, failed |-> {}, arrived |-> <<>>]

BatchInit ==
  /\ batch = NoBatch
  /\ currentToolCalls = <<>>

\* the slot a new chat call takes
FreeChat == CHOOSE j \in ChatIds :
              chats[j].pc = "idle" /\ \A m \in ChatIds : chats[m].pc = "idle" => j <= m

(***************************************************************************)
(* BatchProcessor: processFromFile and processQuestion, cut at their       *)
(* awaits.  The synchronous run of the loop over the records of a chunk is *)
(* taken one processQuestion call at a time (batch.pc = "dispatch"), and   *)
(* nothing else runs until it is through; the resumptions that are already *)
(* queued (after addMessage, after a chat call settled) run before any     *)
(* answer of the LLM or of a server is handled.                            *)
(***************************************************************************)
\* the turns a chat call of processQuestion may take (maxTurns, 10 in chat)
BatchTurns == 2

RecordIds == 1..MaxRecords
\* the records a file may hold: record i asks "q<i>", with the context
\* "c<i>" or without context
QuestionLists ==
  UNION {[1..n -> {"", "c"}] : n \in 0..MaxRecords}
Question(questions, i) ==
  [question |-> "q" \o ToString(i),
   context |-> IF questions[i] = "" THEN "" ELSE questions[i] \o ToString(i)]

Min(a, b) == IF a <= b THEN a ELSE b

NoResult == [rec |-> 0, number |-> 0, success |-> FALSE, response |-> "",
             toolCalls |-> <<>>, turns |-> <<>>]

\* what processQuestion returns once its chat call settled; turns: the
\* turns that chat call pushed
BatchResult(c, records, number) ==
  [rec |-> c.rec, number |-> number, success |-> (c.pc = "returned"),
   response |-> IF c.pc = "returned" THEN c.finalResponse ELSE "",
   toolCalls |-> records, turns |-> c.own]

\* processFromFile up to its loop: the questions are loaded, results emptied
ProcessFromFile(questions, maxConcurrency, continueOnError) ==
  /\ batch.pc = "idle" /\ ChatIdle
  /\ batch' = [NoBatch EXCEPT
       !.pc = IF Len(questions) = 0 THEN "save" ELSE "dispatch",
       !.questions = questions, !.maxConcurrency = maxConcurrency,
       !.continueOnError = continueOnError, !.next = 1,
       !.chunkStart = 1, !.chunkEnd = Min(maxConcurrency, Len(questions))]
  /\ UNCHANGED <<currentToolCalls, chatVars, hubVars>>

\* one processQuestion call of the loop, up to its first await: on
\* addMessage when the record has a context, else inside chat on the LLM
Dispatch ==
  /\ batch.pc = "dispatch"
  /\ LET r == batch.next
         number == IF batch.maxConcurrency = 1 THEN r
                   ELSE Len(batch.results) + (r - batch.chunkStart) + 1
         b == [batch EXCEPT !.next = r + 1, !.number[r] = number,
                            !.started = Append(@, r),
                            !.pc = IF r = batch.chunkEnd THEN "wait" ELSE "dispatch"]
     IN /\ currentToolCalls' = <<>>
        /\ IF Question(batch.questions, r).context # ""
           THEN /\ messages' = Append(messages,
                      Message("system", Question(batch.questions, r).context, <<>>, <<>>))
                /\ batch' = [b EXCEPT !.ctxQueue = Append(@, r)]
                /\ UNCHANGED <<chats, chatDone, llmIssued, resolves, hubVars>>
           ELSE /\ batch' = b
                /\ ChatBegin(FreeChat, Question(batch.questions, r).question,
                             BatchTurns, TRUE, TRUE, r)

\* processQuestion after await addMessage: the chat call, up to the LLM
ContextAdded ==
  /\ batch.pc = "wait" /\ batch.ctxQueue # <<>>
  /\ batch' = [batch EXCEPT !.ctxQueue = Tail(@)]
  /\ ChatBegin(FreeChat, Question(batch.questions, Head(batch.ctxQueue)).question,
               BatchTurns, TRUE, TRUE, Head(batch.ctxQueue))
  /\ UNCHANGED currentToolCalls

\* the batch with the return of a processQuestion call noted, and the failure
\* of its chat call
Noting(b, c) ==
  [b EXCEPT !.failed = IF c.pc = "threw" THEN @ \cup {c.rec} ELSE @,
            !.arrived = Append(@, c.rec)]

\* the bug C13 excludes: the transcript is not cleared between the records
SequentialResumes_KeepsTranscript(b, result) ==
  LET pushed == [b EXCEPT !.results = Append(@, result)] IN
  /\ UNCHANGED messages
  /\ batch' = IF ~result.success /\ ~b.continueOnError
              THEN [pushed EXCEPT !.pc = "save"]
              ELSE IF b.next > Len(b.questions)
              THEN [pushed EXCEPT !.pc = "save"]
              ELSE [pushed EXCEPT !.pc = "dispatch", !.chunkStart = b.next,
                                  !.chunkEnd = b.next]

\* the bug C15 excludes: the loop goes on after a failure whatever
\* continueOnError
SequentialResumes_NeverBreaks(b, result) ==
  LET pushed == [b EXCEPT !.results = Append(@, result)] IN
  /\ messages' = <<>>
  /\ batch' = IF b.next > Len(b.questions)
              THEN [pushed EXCEPT !.pc = "save"]
              ELSE [pushed EXCEPT !.pc = "dispatch", !.chunkStart = b.next,
                                  !.chunkEnd = b.next]

\* the loop of the sequential path after await processQuestion: the result
\* is pushed; the loop breaks on a failure when continueOnError is off, else
\* the transcript is cleared and the next record is up
SequentialResumes(b, result) ==
  LET pushed == [b EXCEPT !.results = Append(@, result)] IN
  IF ~result.success /\ ~b.continueOnError
  THEN /\ batch' = [pushed EXCEPT !.pc = "save"]
       /\ UNCHANGED messages
  ELSE /\ messages' = <<>>
       /\ batch' = IF b.next > Len(b.questions)
                   THEN [pushed EXCEPT !.pc = "save"]
                   ELSE [pushed EXCEPT !.pc = "dispatch", !.chunkStart = b.next,
                                       !.chunkEnd = b.next]

\* the bug C26 excludes: the results of the records that failed are dropped
\* when the chunk is pushed
ConcurrentResumes_DropsFailed(b, result) ==
  LET settled == [b.settled EXCEPT ![result.rec] = result]
      chunk == [i \in 1..(b.chunkEnd - b.chunkStart + 1) |->
                  settled[b.chunkStart + i - 1]]
      pushed == [b EXCEPT !.results = @ \o SelectSeq(chunk, LAMBDA r : r.success),
                              !.settled = [r \in RecordSlots |-> NoResult]]
  IN /\ UNCHANGED messages
     /\ batch' =
          IF \E i \in 1..Len(chunk) : chunk[i].rec = 0
          THEN [b EXCEPT !.settled = settled]
          ELSE IF b.next > Len(b.questions)
          THEN [pushed EXCEPT !.pc = "save"]
          ELSE [pushed EXCEPT !.pc = "dispatch", !.chunkStart = b.next,
                  !.chunkEnd = Min(b.next + b.maxConcurrency - 1,
                                   Len(b.questions))]

\* the bug C33 excludes: the next chunk is up as soon as one record of the
\* chunk in hand has settled
ConcurrentResumes_DoesNotWait(b, result) ==
  LET settled == [b.settled EXCEPT ![result.rec] = result]
      pushed == [b EXCEPT !.results = Append(@, result)]
  IN /\ UNCHANGED messages
     /\ batch' =
          IF b.next > Len(b.questions)
          THEN IF \E r \in b.chunkStart..b.chunkEnd : r # result.rec /\ settled[r].rec = 0
               THEN [pushed EXCEPT !.settled = settled]
               ELSE [pushed EXCEPT !.pc = "save"]
          ELSE [pushed EXCEPT !.pc = "dispatch", !.chunkStart = b.next,
                  !.chunkEnd = b.next]

\* the bug C34 excludes: each result is pushed when its record settles
ConcurrentResumes_PushesOnArrival(b, result) ==
  LET settled == [b.settled EXCEPT ![result.rec] = result]
      pushed == [b EXCEPT !.results = Append(@, result)]
  IN /\ UNCHANGED messages
     /\ batch' =
          IF \E r \in b.chunkStart..b.chunkEnd : settled[r].rec = 0
          THEN [pushed EXCEPT !.settled = settled]
          ELSE IF b.next > Len(b.questions)
          THEN [pushed EXCEPT !.pc = "save", !.settled = [r \in RecordSlots |-> NoResult]]
          ELSE [pushed EXCEPT !.pc = "dispatch", !.chunkStart = b.next,
                  !.chunkEnd = Min(b.next + b.maxConcurrency - 1,
                                   Len(b.questions)),
                  !.settled = [r \in RecordSlots |-> NoResult]]

\* of the chunk, they are pushed in the order of the chunk and the next chunk
\* is up
ConcurrentResumes(b, result) ==
  LET settled == [b.settled EXCEPT ![result.rec] = result]
      chunk == [i \in 1..(b.chunkEnd - b.chunkStart + 1) |->
                  settled[b.chunkStart + i - 1]]
      pushed == [b EXCEPT !.results = @ \o chunk,
                              !.settled = [r \in RecordSlots |-> NoResult]]
  IN /\ UNCHANGED messages
     /\ batch' =
          IF \E i \in 1..Len(chunk) : chunk[i].rec = 0
          THEN [b EXCEPT !.settled = settled]
          ELSE IF b.next > Len(b.questions)
          THEN [pushed EXCEPT !.pc = "save"]
          ELSE [pushed EXCEPT !.pc = "dispatch", !.chunkStart = b.next,
                  !.chunkEnd = Min(b.next + b.maxConcurrency - 1,
                                   Len(b.questions))]

\* processQuestion after await chat, returned or thrown: it returns its
\* result with a copy of currentToolCalls, and the loop goes on
ProcessQuestionResumes(j) ==
  /\ batch.pc = "wait" /\ batch.ctxQueue = <<>>
  /\ chats[j].pc \in {"returned", "threw"}
  /\ chats' = [chats EXCEPT ![j] = IdleChat]
  /\ LET result == BatchResult(chats[j], currentToolCalls, batch.number[chats[j].rec]) IN
     IF batch.maxConcurrency = 1 THEN SequentialResumes(Noting(batch, chats[j]), result)
     ELSE ConcurrentResumes(Noting(batch, chats[j]), result)
  /\ UNCHANGED <<currentToolCalls, chatDone, llmIssued, resolves, hubVars>>

\* processFromFile after await saveResults: it returns the results
ResultsSaved ==
  /\ batch.pc = "save"
  /\ batch' = [batch EXCEPT !.pc = "done"]
  /\ UNCHANGED <<currentToolCalls, chatVars, hubVars>>

\* an answer of the LLM or of a server is handled when no queued resumption
\* of the batch is left
BatchAwaitsAnswers ==
  /\ batch.pc = "wait" /\ batch.ctxQueue = <<>>
  /\ \A j \in ChatIds : chats[j].pc \notin {"returned", "threw"}

(***************************************************************************)
(* Specifications                                                          *)
(***************************************************************************)
\* the hub alone, its calls awaited one after the other
InitHub == HubInit /\ ChatInit /\ BatchInit
SpecHub == InitHub /\ [][HubNext]_vars

\* the servers of the hub added, removed and disconnected, each call awaited
\* before the next
DisconnectAwaited == HubIdle /\ DisconnectStart(FreeTask)

ServersContinue ==
  \E k \in TaskIds :
    \/ \E closeOk \in BOOLEAN : DisconnectConnectionSettle(k, closeOk)
    \/ RemoveServerDelete(k)
    \/ \E ok \in BOOLEAN : ConnectSettle(k, ok)
    \/ \E toolsOk \in BOOLEAN, tools \in Catalogs,
          resourcesOk \in BOOLEAN, resources \in ResourceCatalogs :
         DiscoverSettle(k, toolsOk, tools, resourcesOk, resources)
    \/ \E c \in ConnIds, closeOk \in BOOLEAN : DisconnectCloseSettle(k, c, closeOk)
    \/ DisconnectClear(k)

NextHubServers ==
  AddServerAwaited \/ RemoveServerAwaited \/ DisconnectAwaited \/ ServersContinue

SpecHubServers == InitHub /\ [][NextHubServers]_vars

\* the hub with callTool calls made while an addServer or removeServer is in
\* flight, as the calls of a chat are when a server is added or removed
\* meanwhile; addServer and removeServer themselves awaited one after the other
TaskFree == \E k \in TaskIds : hubTasks[k].op = "idle"
NoMutation == \A k \in TaskIds : hubTasks[k].op \notin {"add", "remove"}

\* the server that is added and removed while calls are made, and the
\* descriptors it is added with
ChangingServers == {"s1"}
ChangingConfigs == {cfg \in Configs : cfg.type = "stdio"}

AddServerSerial ==
  /\ NoMutation /\ TaskFree
  /\ \E name \in ChangingServers, cfg \in ChangingConfigs :
       AddServerStart(FreeTask, name, cfg)

RemoveServerSerial ==
  /\ NoMutation /\ TaskFree
  /\ \E name \in ChangingServers : RemoveServerStart(FreeTask, name)

\* one callTool at a time, started at any point of an addServer or removeServer
CallToolInterleaved ==
  /\ TaskFree /\ \A k \in TaskIds : hubTasks[k].op # "call"
  /\ \E name \in ServerNames, tool \in ToolNames : CallToolStart(FreeTask, name, tool)

NextHubCalls == AddServerSerial \/ RemoveServerSerial \/ CallToolInterleaved \/ HubContinue
SpecHubCalls == InitHub /\ [][NextHubCalls]_vars

\* the servers a configuration may hold at start-up, with their tool lists
StartupServers ==
  { <<>>,
    <<[name |-> "s1", tools |-> <<"t1">>]>>,
    <<[name |-> "s1", tools |-> <<"t1">>], [name |-> "s2", tools |-> <<"t1", "t2">>]>> }

\* the hub after the addServer loop of the start-up has connected them
HubAfterStartup(servers) ==
  /\ connections = [i \in 1..Len(servers) |-> [name |-> servers[i].name, conn |-> i]]
  /\ conns = [c \in ConnIds |->
                IF c <= Len(servers)
                THEN [client |-> "open", connected |-> TRUE,
                      tools |-> servers[c].tools, resources |-> <<>>]
                ELSE NoConn]
  /\ hubTasks = [k \in TaskIds |-> IdleTask]
  /\ hubDone = NoneDone
  /\ registered = servers

\* one engine on a hub connected at start-up; chat calls awaited one after
\* the other
InitChat == ChatInit /\ BatchInit /\ \E servers \in StartupServers : HubAfterStartup(servers)

ChatContinue ==
  \E j \in ChatIds :
    \/ LlmThrows(j)
    \/ \E text \in LlmTexts, calls \in LlmCallLists : LlmAnswers(j, text, calls)
    \/ \E ok \in BOOLEAN, response \in ToolResponses : ToolSettles(j, ok, response)

ChatCallAwaited ==
  /\ ChatIdle
  /\ \E userInput \in UserInputs, maxTurns \in 1..MaxTurnsOption, auto \in BOOLEAN :
       ChatStart(FreeChat, userInput, maxTurns, auto)

NextChat == ChatCallAwaited \/ ChatContinue

SpecChat == InitChat /\ [][NextChat]_vars

\* the same with manual resolution of tool calls between the chat calls
ShortChatCallAwaited ==
  /\ ChatIdle
  /\ \E userInput \in UserInputs, maxTurns \in {1, 2}, auto \in BOOLEAN :
       ChatStart(FreeChat, userInput, maxTurns, auto)

ResolveCallAwaited ==
  /\ ChatIdle
  /\ \E toolCallId \in 1..(llmIssued + 1), isError \in BOOLEAN :
       executeToolManually(toolCallId, "done", isError)

\* the resumptions of chat, the LLM answering one text
ShortChatContinue ==
  \E j \in ChatIds :
    \/ LlmThrows(j)
    \/ \E calls \in LlmCallLists : LlmAnswers(j, "a", calls)
    \/ \E ok \in BOOLEAN, response \in ToolResponses : ToolSettles(j, ok, response)

NextManual == ShortChatCallAwaited \/ ShortChatContinue \/ ResolveCallAwaited

SpecManual == InitChat /\ [][NextManual]_vars

\* number of tool-call identifiers after which no further chat is started
\* where clearMessages lets the transcript start over
MaxIssued == 2

\* an engine of the web server: /clear arrives at any time, also while a chat
\* of the same session is suspended
ClearChatCallAwaited ==
  /\ ChatIdle /\ llmIssued < MaxIssued
  /\ \E userInput \in UserInputs, maxTurns \in {1, 2} :
       ChatStart(FreeChat, userInput, maxTurns, TRUE)

ClearAnyTime == clearMessages

NextClear == ClearChatCallAwaited \/ ShortChatContinue \/ ClearAnyTime

SpecClear == InitChat /\ [][NextClear]_vars

\* one engine whose caller clears the transcript, adds context turns and
\* resolves tool calls between its chat calls
ClearAwaited == ChatIdle /\ messages # <<>> /\ clearMessages

AddMessageAwaited ==
  /\ ChatIdle /\ Len(messages) < MaxTranscript
  /\ addMessage("c", "system")

\* a tool call the LLM issued is resolved by hand
ResolveIssuedAwaited ==
  /\ ChatIdle
  /\ \E toolCallId \in 1..llmIssued : executeToolManually(toolCallId, "done", FALSE)

NextTranscript ==
  \/ ClearChatCallAwaited \/ ShortChatContinue \/ ResolveIssuedAwaited
  \/ ClearAwaited \/ AddMessageAwaited

\* the hub of that engine: one server connected at start-up
InitTranscript ==
  /\ ChatInit /\ BatchInit
  /\ HubAfterStartup(<<[name |-> "s1", tools |-> <<"t1">>]>>)

SpecTranscript == InitTranscript /\ [][NextTranscript]_vars

\* chat calls made with and without an execution observer, awaited one
\* after the other
ObservedChatCallAwaited ==
  /\ ChatIdle
  /\ \E userInput \in UserInputs, maxTurns \in {1, 2}, auto \in BOOLEAN,
        observer \in BOOLEAN :
       /\ Len(messages) + 1 + maxTurns <= MaxTranscript
       /\ ChatBegin(FreeChat, userInput, maxTurns, auto, observer, 0)
       /\ UNCHANGED batchVars

NextObserver == ObservedChatCallAwaited \/ ShortChatContinue

SpecObserver == InitChat /\ [][NextObserver]_vars

\* a batch run on a fresh engine, the records one after the other
ProcessFromFileSequential ==
  \E questions \in QuestionLists, continueOnError \in BOOLEAN :
    ProcessFromFile(questions, 1, continueOnError)

\* what the LLM and the servers answer during a batch: the LLM fails, or
\* answers without tool calls, or with a call whose arguments do not parse
\* followed by a call of t2; the server answers the call or fails
BatchCallLists ==
  { <<>>,
    <<[name |-> "t1", arguments |-> "{oops"],
      [name |-> "t2", arguments |-> "{\"text\":\"hi\"}"]>> }

BatchAnswered ==
  /\ BatchAwaitsAnswers
  /\ \E j \in ChatIds :
       \/ LlmThrows(j)
       \/ \E calls \in BatchCallLists : LlmAnswers(j, "a", calls)
       \/ \E ok \in BOOLEAN : ToolSettles(j, ok, NoResponse)

\* the hub of a batch run: both servers connected at start-up
InitBatch ==
  /\ ChatInit /\ BatchInit
  /\ HubAfterStartup(<<[name |-> "s1", tools |-> <<"t1">>],
                       [name |-> "s2", tools |-> <<"t1", "t2">>]>>)

ProcessQuestionSettles == \E j \in ChatIds : ProcessQuestionResumes(j)

NextBatchSequential ==
  \/ ProcessFromFileSequential \/ Dispatch \/ ContextAdded \/ BatchAnswered
  \/ ProcessQuestionSettles \/ ResultsSaved

SpecBatchSequential == InitBatch /\ [][NextBatchSequential]_vars

\* a batch run on a fresh engine with any concurrency limit the chat slots allow
ProcessFromFileAny ==
  \E questions \in QuestionLists, maxConcurrency \in 1..MaxChats,
     continueOnError \in BOOLEAN :
    ProcessFromFile(questions, maxConcurrency, continueOnError)

NextBatch ==
  \/ ProcessFromFileAny \/ Dispatch \/ ContextAdded \/ BatchAnswered
  \/ ProcessQuestionSettles \/ ResultsSaved

SpecBatch == InitBatch /\ [][NextBatch]_vars

\* a batch run in chunks: files of records without context, a concurrency
\* limit above one, the LLM answering without tool calls or failing
ChunkedLists == UNION {[1..n -> {""}] : n \in 0..MaxChunkedRecords}

ProcessFromFileChunked ==
  \E questions \in ChunkedLists, maxConcurrency \in 2..MaxChats,
     continueOnError \in BOOLEAN :
    ProcessFromFile(questions, maxConcurrency, continueOnError)

ChunkAnswered ==
  /\ BatchAwaitsAnswers
  /\ \E j \in ChatIds : LlmThrows(j) \/ LlmAnswers(j, "a", <<>>)

NextBatchChunked ==
  \/ ProcessFromFileChunked \/ Dispatch \/ ChunkAnswered
  \/ ProcessQuestionSettles \/ ResultsSaved

SpecBatchChunked == InitBatch /\ [][NextBatchChunked]_vars

(***************************************************************************)
(* Properties of the hub                                                   *)
(***************************************************************************)
\* C1: once every addServer / removeServer call made so far has returned,
\* getAvailableTools() is the concatenation, in the order of the additions,
\* of the tool lists discovered for the servers added and not removed or
\* replaced since: each list once, nothing of a removed session.
C1_AvailableToolsAreRegisteredCatalogs ==
  HubIdle =>
    getAvailableTools(connections, conns)
      = Concat([i \in 1..Len(registered) |-> registered[i].tools])

\* a session was removed while another stays, and a tool of the removed one
\* is no longer offered
C1_Witness ==
  /\ HubIdle
  /\ hubDone.op = "remove" /\ hubDone.old # 0
  /\ Len(registered) = 1
  /\ \E t \in Range(conns[hubDone.old].tools) :
       t \notin Range(getAvailableTools(connections, conns))

\* C2: when addServer returns or throws for a name that was registered, the
\* old session's flag is false, the old session is out of the map, and a
\* tool of the old catalog is offered only if another session has it.
C2_ReplaceTearsDownOld ==
  (HubIdle /\ hubDone.op = "add" /\ hubDone.old # 0) =>
    /\ ~conns[hubDone.old].connected
    /\ hubDone.old \notin MapConns(connections)
    /\ \A t \in Range(conns[hubDone.old].tools) :
         t \in Range(getAvailableTools(connections, conns)) =>
           \E c \in MapConns(connections) \ {hubDone.old} :
             conns[c].connected /\ t \in Range(conns[c].tools)

\* a replacing addServer failed and a tool of the old catalog is gone
C2_Witness ==
  /\ HubIdle /\ hubDone.op = "add" /\ hubDone.old # 0
  /\ hubDone.outcome = "ConnectionError"
  /\ \E t \in Range(conns[hubDone.old].tools) :
       t \notin Range(getAvailableTools(connections, conns))

\* the step in which addServer of task k throws because the transport open
\* or the tool discovery failed
AddServerFails(k) ==
  /\ hubTasks[k].op = "add" /\ hubTasks'[k].op = "idle"
  /\ hubDone'.outcome = "ConnectionError"

\* the entry of a name in the map, with the state of its session
Entry(map, cs, name) ==
  IF HasServer(map, name)
  THEN [conn |-> GetConn(map, name), session |-> cs[GetConn(map, name)]]
  ELSE [conn |-> 0, session |-> NoConn]

\* C3 as stated: a failed addServer leaves the session map as it was before
\* the call, the session registered under the same name included.
C3_FailedAddLeavesMapUntouched ==
  [][\A k \in TaskIds : AddServerFails(k) =>
        /\ connections' = hubTasks[k].pre.connections
        /\ \A c \in MapConns(connections') : conns'[c] = hubTasks[k].pre.conns[c]]_vars

\* C3 amended: a failed addServer registers no session under the name, and
\* leaves the entry of every other name as it was before the call; a session
\* that was registered under the name has been disconnected and removed.
C3_FailedAddRegistersNothing ==
  [][\A k \in TaskIds : AddServerFails(k) =>
        /\ ~HasServer(connections', hubTasks[k].name)
        /\ getServerNames(connections')
             = getServerNames(MapDelete(hubTasks[k].pre.connections, hubTasks[k].name))
        /\ \A n \in ServerNames \ {hubTasks[k].name} :
             Entry(connections', conns', n)
               = Entry(hubTasks[k].pre.connections, hubTasks[k].pre.conns, n)
        /\ hubTasks[k].old # 0 => ~conns'[hubTasks[k].old].connected]_vars

\* an addServer failed on a tool discovery while another server is registered
C3_Witness ==
  /\ HubIdle /\ hubDone.op = "add" /\ hubDone.outcome = "ConnectionError"
  /\ hubDone.conn # 0
  /\ Len(connections) = 1 /\ connections[1].name # hubDone.name

\* the step in which a callTool is refused by its checks
C4_Refused ==
  hubDone' # hubDone /\ hubDone'.op = "call" /\ hubTasks' = hubTasks

\* C4: callTool throws not-connected, nothing sent, when the session is
\* absent or its flag is false; else tool-not-found, nothing sent, when the
\* tool is not in the session's catalog; else it sends one tools/call and
\* throws a tool-execution error exactly when the transport fails.
C4_CallToolChecksThenForwards ==
  [][ /\ C4_Refused =>
           LET c == GetConn(connections, hubDone'.name) IN
           /\ hubDone'.sent = 0 /\ hubDone'.transport = ""
           /\ IF c = 0 \/ ~conns[c].connected
              THEN hubDone'.outcome = "NotConnected"
              ELSE /\ hubDone'.tool \notin Range(conns[c].tools)
                   /\ hubDone'.outcome = "ToolNotFound"
      /\ \A k \in TaskIds :
           (hubTasks[k].op = "idle" /\ hubTasks'[k].op = "call") =>
             LET c == GetConn(connections, hubTasks'[k].name) IN
             /\ c # 0 /\ conns[c].connected
             /\ hubTasks'[k].tool \in Range(conns[c].tools)
             /\ hubTasks'[k].sent = 1 /\ hubTasks'[k].conn = c
             /\ hubDone' = hubDone
      /\ \A k \in TaskIds :
           (hubTasks[k].op = "call" /\ hubTasks'[k].op = "idle") =>
             /\ hubDone'.op = "call" /\ hubDone'.sent = 1
             /\ hubDone'.name = hubTasks[k].name /\ hubDone'.tool = hubTasks[k].tool
             /\ hubDone'.transport \in {"failed", "answered"}
             /\ hubDone'.transport = "failed" => hubDone'.outcome = "ToolExecutionError"
             /\ hubDone'.transport = "answered" => hubDone'.outcome = "ok"
    ]_vars

\* a call was refused as not connected while its session was registered,
\* the flag cleared by a disconnect in flight
C4_Witness ==
  /\ hubDone.op = "call" /\ hubDone.outcome = "NotConnected" /\ hubDone.sent = 0
  /\ hubDone.old # 0
  /\ \E k \in TaskIds : hubTasks[k].pc = "delete" /\ hubTasks[k].name = hubDone.name

(***************************************************************************)
(* Properties of the orchestrator                                          *)
(***************************************************************************)
Last(seq) == seq[Len(seq)]

\* the turns appended since the chat call recorded in chatDone started
NewTurns == SubSeq(messages, chatDone.start + 1, Len(messages))

ChatReturned == ChatIdle /\ chatDone.op = "chat" /\ chatDone.outcome = "returned"

\* every tool call of the turn has its result, in the order of the calls
Resolved(m) ==
  /\ Len(m.toolResults) = Len(m.toolCalls)
  /\ \A i \in 1..Len(m.toolCalls) : m.toolResults[i].toolCallId = m.toolCalls[i].id

\* C5: a chat in automatic mode that ends on a response without tool calls,
\* after k responses with tool calls, made k+1 LLM calls and appended one
\* user turn and k+1 assistant turns, the first k with tool calls and their
\* results, the last with neither; and whenever the LLM is called, every
\* assistant turn appended so far by the call carries its results.
C5_LoopEndsOnFirstAnswerWithoutTools ==
  /\ (ChatReturned /\ chatDone.auto /\ Last(messages).toolCalls = <<>>) =>
       /\ Len(NewTurns) = chatDone.llmCalls + 1
       /\ NewTurns[1].role = "user"
       /\ NewTurns[1].toolCalls = <<>> /\ NewTurns[1].toolResults = <<>>
       /\ \A i \in 2..Len(NewTurns) :
            /\ NewTurns[i].role = "assistant"
            /\ i < Len(NewTurns) => NewTurns[i].toolCalls # <<>> /\ Resolved(NewTurns[i])
            /\ i = Len(NewTurns) => NewTurns[i].toolCalls = <<>> /\ NewTurns[i].toolResults = <<>>
  /\ \A j \in ChatIds : (chats[j].pc = "llm" /\ chats[j].auto) =>
       /\ Len(messages) = chats[j].start + chats[j].llmCalls
       /\ \A i \in (chats[j].start + 2)..Len(messages) :
            messages[i].toolCalls # <<>> /\ Resolved(messages[i])

\* tools, tools, no tools: three LLM calls, four turns
C5_Witness ==
  /\ ChatReturned /\ chatDone.auto /\ Last(messages).toolCalls = <<>>
  /\ chatDone.llmCalls = 3 /\ Len(NewTurns) = 4

\* C6: chat never makes more than maxTurns LLM calls; when every response
\* asked for a tool it made exactly maxTurns of them and returned the last
\* assistant text with the ceiling reported.
C6_CeilingBoundsTheLoop ==
  /\ \A j \in ChatIds : chats[j].llmCalls <= chats[j].maxTurns
  /\ chatDone.op = "chat" => chatDone.llmCalls <= chatDone.maxTurns
  /\ (ChatReturned /\ chatDone.auto /\ Last(messages).toolCalls # <<>>) =>
       /\ chatDone.llmCalls = chatDone.maxTurns
       /\ Len(NewTurns) = chatDone.maxTurns + 1
       /\ chatDone.text = Last(messages).content
       /\ chatDone.ceiling

\* maxTurns = 2, two responses with tool calls, two LLM calls
C6_Witness ==
  /\ ChatReturned /\ chatDone.auto /\ chatDone.maxTurns = 2
  /\ chatDone.llmCalls = 2 /\ chatDone.ceiling
  /\ \A i \in 2..Len(NewTurns) : NewTurns[i].toolCalls # <<>>
  /\ NewTurns[2].content # NewTurns[3].content

\* number of results of a turn with this identifier
ResultsFor(m, id) ==
  Cardinality({n \in 1..Len(m.toolResults) : m.toolResults[n].toolCallId = id})

\* C7: after a chat in automatic mode returned, every tool call of every
\* assistant turn it appended has exactly one result with its identifier in
\* that turn; a tool call without result is one of a chat in manual mode.
C7_EveryToolCallResolved ==
  ChatReturned =>
    \A i \in 1..Len(NewTurns) : \A n \in 1..Len(NewTurns[i].toolCalls) :
      /\ chatDone.auto => ResultsFor(NewTurns[i], NewTurns[i].toolCalls[n].id) = 1
      /\ ResultsFor(NewTurns[i], NewTurns[i].toolCalls[n].id) = 0 =>
           ~chatDone.auto /\ chatDone.halted

\* the ceiling cut the loop on a turn of two tool calls, both resolved
C7_Witness ==
  /\ ChatReturned /\ chatDone.auto /\ chatDone.ceiling
  /\ Len(Last(messages).toolCalls) = 2 /\ Len(Last(messages).toolResults) = 2

\* the outcome executeToolCalls owes to a call that cannot succeed on this hub
FailsParsing(call) == ~JsonParse(call.arguments).ok
AbsentEverywhere(call) ==
  /\ ~FailsParsing(call)
  /\ call.name \notin Range(getAvailableTools(connections, conns))

\* C8: a tool call whose arguments do not parse, whose tool no server has or
\* whose request fails on every server gets a result with the error flag, the
\* calls after it in the turn get their results too, and the loop goes on to
\* the next LLM call unless the ceiling is reached; chat throws only out of a
\* pending LLM call.
C8_ToolFailuresAreAbsorbed ==
  /\ [](\A i \in 1..Len(messages) :
          (messages[i].role = "assistant" /\ messages[i].toolResults # <<>>) =>
            /\ Resolved(messages[i])
            /\ \A n \in 1..Len(messages[i].toolCalls) :
                 /\ FailsParsing(messages[i].toolCalls[n]) =>
                      /\ messages[i].toolResults[n].isError
                      /\ messages[i].toolResults[n].content = <<"Error: ", "SyntaxError">>
                 /\ AbsentEverywhere(messages[i].toolCalls[n]) =>
                      /\ messages[i].toolResults[n].isError
                      /\ messages[i].toolResults[n].content
                           = <<"Error: ", "Tool ", messages[i].toolCalls[n].name, " not found">>
                 /\ messages[i].toolResults[n].isError <=>
                      messages[i].toolResults[n].content[1] = "Error: ")
  /\ []((ChatReturned /\ chatDone.auto /\ Last(messages).toolCalls # <<>>) =>
          chatDone.llmCalls = chatDone.maxTurns)
  /\ [][\A j \in ChatIds :
          (chats[j].pc # "idle" /\ chats'[j].pc = "idle" /\ chatDone'.outcome # "returned")
            => chats[j].pc = "llm"]_vars

\* a turn whose first call failed to parse and whose second call succeeded,
\* followed by another LLM answer
C8_Witness ==
  /\ ChatReturned /\ chatDone.auto
  /\ \E i \in 1..(Len(messages) - 1) :
       /\ Len(messages[i].toolCalls) = 2 /\ Len(messages[i].toolResults) = 2
       /\ FailsParsing(messages[i].toolCalls[1])
       /\ messages[i].toolResults[1].isError
       /\ ~messages[i].toolResults[2].isError
       /\ messages[i + 1].role = "assistant"

\* C9: in manual mode a response with tool calls ends chat at once: the
\* assistant turn is appended with its calls and no result, callTool was not
\* called, the LLM was called once and its text is returned.
C9_ManualModeHalts ==
  /\ \A j \in ChatIds : ~chats[j].auto =>
       chats[j].pc # "tool" /\ chats[j].hubCalls = 0 /\ chats[j].llmCalls <= 1
  /\ (ChatReturned /\ ~chatDone.auto /\ Last(messages).toolCalls # <<>>) =>
       /\ Last(messages).role = "assistant"
       /\ Last(messages).toolResults = <<>>
       /\ chatDone.hubCalls = 0 /\ chatDone.requests = 0
       /\ chatDone.llmCalls = 1
       /\ Len(NewTurns) = 2
       /\ chatDone.text = Last(messages).content

\* manual mode, turns left, two tool calls pending
C9_Witness ==
  /\ ChatReturned /\ ~chatDone.auto /\ chatDone.maxTurns >= 2
  /\ Len(Last(messages).toolCalls) = 2 /\ Last(messages).toolResults = <<>>

\* some assistant turn of the transcript issued this identifier
Issued(msgs, id) ==
  \E i \in 1..Len(msgs) :
    msgs[i].role = "assistant" /\ \E n \in 1..Len(msgs[i].toolCalls) : msgs[i].toolCalls[n].id = id

\* C10: executeToolManually with an identifier that no assistant turn of the
\* transcript issued throws the unknown-tool-call error and leaves the
\* transcript as it was.
C10_UnknownIdLeavesTranscript ==
  (ChatIdle /\ chatDone.op = "resolve" /\ ~Issued(chatDone.before, chatDone.id)) =>
    chatDone.outcome = "UnknownToolCall" /\ messages = chatDone.before

\* an unknown identifier was given while a turn has a pending tool call
C10_Witness ==
  /\ ChatIdle /\ chatDone.op = "resolve" /\ chatDone.outcome = "UnknownToolCall"
  /\ ~Issued(messages, chatDone.id)
  /\ \E i \in 1..Len(messages) : messages[i].toolCalls # <<>> /\ messages[i].toolResults = <<>>

\* some assistant turn holds a tool call of this identifier without a result
Pending(msgs, id) ==
  \E i \in 1..Len(msgs) :
    /\ msgs[i].role = "assistant"
    /\ \E n \in 1..Len(msgs[i].toolCalls) : msgs[i].toolCalls[n].id = id
    /\ ResultsFor(msgs[i], id) = 0

\* C11: executeToolManually succeeds only for a tool call that is still
\* pending: when every tool call of the identifier already has a result it
\* throws the unknown-tool-call error and appends nothing, so that no
\* identifier ever has a second result.
C11_ResolvesOnlyPending ==
  /\ (ChatIdle /\ chatDone.op = "resolve" /\ ~Pending(chatDone.before, chatDone.id)) =>
       chatDone.outcome = "UnknownToolCall" /\ messages = chatDone.before
  /\ \A i \in 1..Len(messages) : \A id \in 1..llmIssued : ResultsFor(messages[i], id) <= 1

\* seq ends with part
EndsWith(seq, part) ==
  /\ Len(part) <= Len(seq)
  /\ SubSeq(seq, Len(seq) - Len(part) + 1, Len(seq)) = part

\* C12: clearMessages while a chat call is suspended does not alter that
\* call: every LLM invocation of the chat receives a transcript that holds
\* its user turn and the assistant turns it pushed before.
C12_ClearSparesChatInFlight ==
  \A j \in ChatIds : chats[j].pc = "llm" => EndsWith(chats[j].input, chats[j].own)

(***************************************************************************)
(* Properties of the batch runner                                          *)
(***************************************************************************)
\* the seed context of a record as the system turn processQuestion adds
ContextTurns(r) ==
  IF Question(batch.questions, r).context = "" THEN <<>>
  ELSE <<Message("system", Question(batch.questions, r).context, <<>>, <<>>)>>

\* C13: in the sequential path, from an empty transcript, a record is started
\* only when every record before it has its result, and each LLM call made
\* for a record receives its context (a system turn, when given), its
\* question and its own assistant turns, and nothing else.
C13_SequentialRecordsIsolated ==
  batch.maxConcurrency = 1 =>
    /\ \A i \in 1..Len(batch.started) : batch.started[i] = i
    /\ Len(batch.started) <= Len(batch.results) + 1
    /\ \A j \in ChatIds :
         (chats[j].rec # 0 /\ chats[j].pc = "llm") =>
           /\ Len(batch.results) = chats[j].rec - 1
           /\ chats[j].input = ContextTurns(chats[j].rec) \o chats[j].own

\* the second record, given a context, is at its second LLM call after the
\* first record left turns with tool calls
C13_Witness ==
  /\ batch.maxConcurrency = 1
  /\ \E j \in ChatIds :
       /\ chats[j].rec = 2 /\ chats[j].pc = "llm" /\ chats[j].turnCount = 2
       /\ ContextTurns(2) # <<>>
  /\ Len(batch.results) = 1 /\ batch.results[1].toolCalls # <<>>

\* the first record that failed (0 when none did)
FirstFailed ==
  IF batch.failed = {} THEN 0
  ELSE CHOOSE f \in batch.failed : \A g \in batch.failed : f <= g

\* C15: in the sequential path, with continueOnError every record has
\* exactly one result, in order, marked failed exactly when its processing
\* failed; without it no record after the first failing one is started and
\* the results are those of the records up to and including it.
C15_SequentialFailureHandling ==
  batch.maxConcurrency = 1 =>
    /\ \A i \in 1..Len(batch.results) :
         /\ batch.results[i].rec = i
         /\ batch.results[i].success = (i \notin batch.failed)
    /\ (~batch.continueOnError /\ FirstFailed # 0) =>
         /\ \A i \in 1..Len(batch.started) : batch.started[i] <= FirstFailed
         /\ Len(batch.results) = FirstFailed
         /\ batch.pc \in {"save", "done"}
    /\ (batch.pc = "done" /\ (batch.continueOnError \/ FirstFailed = 0)) =>
         Len(batch.results) = Len(batch.questions)

\* a run without continueOnError ended after its first record failed, the
\* second record never started
C15_Witness ==
  /\ batch.maxConcurrency = 1 /\ batch.pc = "done" /\ ~batch.continueOnError
  /\ Len(batch.questions) = 2 /\ batch.failed = {1}
  /\ Len(batch.results) = 1 /\ ~batch.results[1].success

\* C14: for every concurrency limit, no LLM call made for a record receives
\* a turn that comes from another record: every turn it receives is the
\* record's context turn, its question or one of its own assistant turns.
C14_RecordsIsolatedAtAnyConcurrency ==
  \A j \in ChatIds :
    (chats[j].rec # 0 /\ chats[j].pc = "llm") =>
      \A i \in 1..Len(chats[j].input) :
        chats[j].input[i] \in Range(ContextTurns(chats[j].rec) \o chats[j].own)

\* the tool calls executed in these turns, each with its outcome
Executed(turns) ==
  UNION {{[toolCallId |-> turns[i].toolResults[n].toolCallId,
           success |-> ~turns[i].toolResults[n].isError] :
            n \in 1..Len(turns[i].toolResults)} : i \in 1..Len(turns)}

\* C16: the tool call records of a record's result are exactly the tool
\* calls executed for that record: one per call identifier, its success flag
\* that of the call's outcome, none missing and none of another record.
C16_ToolCallRecordsExact ==
  \A i \in 1..Len(batch.results) :
    LET records == batch.results[i].toolCalls IN
    /\ {[toolCallId |-> records[n].toolCallId, success |-> records[n].success] :
          n \in 1..Len(records)} = Executed(batch.results[i].turns)
    /\ \A m, n \in 1..Len(records) :
         records[m].toolCallId = records[n].toolCallId => m = n

(***************************************************************************)
(* Properties of the hub: descriptors, discovery, teardown                 *)
(***************************************************************************)
\* a process descriptor without command, or a stream descriptor without url
LacksRequiredField(cfg) ==
  \/ cfg.type = "stdio" /\ ~cfg.command
  \/ cfg.type = "sse" /\ ~cfg.url

\* C17: addServer with a process descriptor lacking command or a stream
\* descriptor lacking url fails with a configuration error, no transport
\* having been opened, and no session is registered under the name.
C17_MissingFieldIsConfigurationError ==
  (hubDone.op = "add" /\ LacksRequiredField(hubDone.cfg)) =>
    /\ hubDone.outcome = "ConfigurationError"
    /\ hubDone.opened = 0 /\ hubDone.conn = 0
    /\ ~HasServer(connections, hubDone.name)

\* a stream descriptor without url was refused for a name that was registered
C17_Witness ==
  /\ HubIdle /\ hubDone.op = "add" /\ hubDone.outcome = "ConfigurationError"
  /\ hubDone.cfg.type = "sse" /\ ~hubDone.cfg.url
  /\ hubDone.old # 0

\* the tool list the caller's record holds for a name
RegisteredTools(name) ==
  LET hits == {i \in 1..Len(registered) : registered[i].name = name}
  IN registered[CHOOSE i \in hits : TRUE].tools

\* C18: an addServer whose resources/list fails while tools/list succeeds
\* registers the session with the discovered tools and no resources; an
\* addServer whose tools/list fails throws and registers no session,
\* whatever resources/list did.
C18_DiscoveryFailures ==
  /\ (HubIdle /\ hubDone.op = "add" /\ hubDone.discovery = "tools") =>
       /\ hubDone.outcome = "ok"
       /\ HasServer(connections, hubDone.name)
       /\ LET c == conns[GetConn(connections, hubDone.name)] IN
          /\ c.connected /\ c.resources = <<>>
          /\ c.tools = RegisteredTools(hubDone.name) /\ c.tools \in Catalogs
  /\ (hubDone.op = "add" /\ hubDone.discovery \in {"resources", "neither"}) =>
       /\ hubDone.outcome = "ConnectionError"
       /\ ~HasServer(connections, hubDone.name)

\* a server that answered tools/list and failed resources/list is registered
C18_Witness ==
  /\ HubIdle /\ hubDone.op = "add" /\ hubDone.discovery = "tools"
  /\ hubDone.outcome = "ok"
  /\ conns[GetConn(connections, hubDone.name)].tools = <<"t1", "t2">>

\* C19: removeServer of a name that is not registered changes nothing;
\* of a registered name it returns without raising, also when client.close()
\* failed, and then the session is absent from the map and its flag is false.
C19_RemoveServerAlwaysCompletes ==
  /\ [](hubDone.op = "remove" => hubDone.outcome = "ok")
  /\ []((HubIdle /\ hubDone.op = "remove") =>
          /\ ~HasServer(connections, hubDone.name)
          /\ hubDone.old # 0 =>
               ~conns[hubDone.old].connected /\ conns[hubDone.old].client = "closed")
  /\ [][(hubDone' # hubDone /\ hubDone'.op = "remove" /\ hubDone'.old = 0) =>
          UNCHANGED <<connections, conns, hubTasks>>]_vars

\* a removeServer returned after the close of its session had failed
C19_Witness ==
  /\ HubIdle /\ hubDone.op = "remove" /\ hubDone.outcome = "ok"
  /\ hubDone.old # 0 /\ hubDone.closeFailed
  /\ ~HasServer(connections, hubDone.name)

\* C20: once disconnect() has returned, the map is empty, so getServerNames,
\* getAvailableTools and getAvailableResources are empty, and every session
\* the map held when it was called has had its client closed and its
\* connectivity flag cleared; the call returns normally even when the close
\* of a session failed.
C20_DisconnectClosesAndClears ==
  (HubIdle /\ hubDone.op = "disconnect") =>
    /\ hubDone.outcome = "ok"
    /\ connections = <<>>
    /\ getServerNames(connections) = <<>>
    /\ getAvailableTools(connections, conns) = <<>>
    /\ getAvailableResources(connections, conns) = <<>>
    /\ \A c \in hubDone.sessions :
         ~conns[c].connected /\ conns[c].client = "closed"

C20_Witness ==
  /\ HubIdle /\ hubDone.op = "disconnect" /\ hubDone.outcome = "ok"
  /\ Cardinality(hubDone.sessions) = 2 /\ hubDone.closeFailed
  /\ connections = <<>>
  /\ \A c \in hubDone.sessions : ~conns[c].connected

(***************************************************************************)
(* Calls to a server that may stay silent                                  *)
(***************************************************************************)
\* callTool calls made at any time on the hub connected at start-up
CallToolAny ==
  /\ TaskFree
  /\ \E name \in ServerNames, tool \in ToolNames : CallToolStart(FreeTask, name, tool)

\* the server of a pending tools/call stops answering: its request stays
\* unanswered from then on
ServerStaysSilent(k) ==
  /\ hubTasks[k].pc = "request" /\ ~hubTasks[k].silent
  /\ hubTasks' = [hubTasks EXCEPT ![k].silent = TRUE]
  /\ UNCHANGED <<connections, conns, hubDone, registered, chatVars, batchVars>>

\* client.request settles with the answer or the failure of a server that
\* answers; callTool holds no timer of its own (timeoutMs is stored by the
\* constructor and read nowhere), so nothing settles the request of a silent
\* server
CallToolAnswered(k) ==
  /\ ~hubTasks[k].silent
  /\ \E ok \in BOOLEAN, response \in ToolResponses : CallToolSettle(k, ok, response)

NextHubPatience ==
  \/ CallToolAny
  \/ \E k \in TaskIds : ServerStaysSilent(k)
  \/ \E k \in TaskIds : CallToolAnswered(k)

\* a server that answers does so eventually
SpecHubPatience ==
  /\ InitChat /\ [][NextHubPatience]_vars
  /\ \A k \in TaskIds : WF_vars(CallToolAnswered(k))

\* C21: every callTool the hub sent to a server eventually settles, by the
\* server's answer or, when the server stays silent, by the timeout.
C21_EveryCallSettles ==
  \A k \in TaskIds : (hubTasks[k].pc = "request") ~> (hubTasks[k].pc # "request")

\* what the fairness of the servers gives: the calls to servers that answer
\* do settle
AnsweredCallsSettle ==
  \A k \in TaskIds :
    (hubTasks[k].pc = "request") ~> (hubTasks[k].pc # "request" \/ hubTasks[k].silent)

(***************************************************************************)
(* Properties of the hub: what interleaved readers see                     *)
(***************************************************************************)
\* an addServer is building its session: connecting or discovering
Building(k) == hubTasks[k].op = "add" /\ hubTasks[k].pc \in {"connect", "discover"}

\* C22: while an addServer is connecting or discovering, its session is not
\* in the map, so getAvailableTools and getAvailableResources do not read it
\* and no callTool is forwarded to it; a session enters the map only in the
\* step in which both discovery requests have settled, with the catalogs
\* they gave, and its catalogs do not change while it is in the map.
C22_NewSessionHiddenUntilDiscovered ==
  /\ [](\A k \in TaskIds : Building(k) =>
          /\ ~HasServer(connections, hubTasks[k].name)
          /\ CallToolCheck(connections, conns, hubTasks[k].name, "t1") = "NotConnected"
          /\ hubTasks[k].conn # 0 =>
               /\ hubTasks[k].conn \notin MapConns(connections)
               /\ \A m \in TaskIds :
                    hubTasks[m].op = "call" => hubTasks[m].conn # hubTasks[k].conn)
  /\ [][\A c \in ConnIds :
          /\ (c \notin MapConns(connections) /\ c \in MapConns(connections')) =>
               \E k \in TaskIds :
                 /\ hubTasks[k].pc = "discover" /\ hubTasks[k].conn = c
                 /\ hubTasks'[k].op = "idle"
                 /\ hubDone'.discovery \in {"both", "tools"}
                 /\ conns'[c].connected /\ conns'[c].tools \in Catalogs
                 /\ conns'[c].resources
                      \in (IF hubDone'.discovery = "both" THEN ResourceCatalogs ELSE {<<>>})
          /\ (c \in MapConns(connections) /\ c \in MapConns(connections')) =>
               /\ conns'[c].tools = conns[c].tools
               /\ conns'[c].resources = conns[c].resources]_vars

\* a callTool for the name was refused as not connected while the addServer
\* replacing its session was discovering
C22_Witness ==
  \E k \in TaskIds :
    /\ Building(k) /\ hubTasks[k].pc = "discover" /\ hubTasks[k].old # 0
    /\ hubDone.op = "call" /\ hubDone.name = hubTasks[k].name
    /\ hubDone.old = 0 /\ hubDone.outcome = "NotConnected"
    /\ getAvailableTools(connections, conns) = <<>>

\* the sessions whose client.close() has been called and has not settled
TearingDown ==
  {hubTasks[k].conn : k \in {m \in TaskIds : hubTasks[m].pc = "close"}}
    \cup UNION {hubTasks[k].closing : k \in {m \in TaskIds : hubTasks[m].pc = "closeAll"}}

\* the names the map holds for a connection
NamesOf(c) == {connections[i].name : i \in {n \in 1..Len(connections) : connections[n].conn = c}}

\* C23: while the client.close() of a session is pending, getAvailableTools
\* does not return that session's tools and a callTool naming it is refused
\* before anything is sent.
C23_TornDownSessionHidden ==
  \A c \in TearingDown :
    /\ ~(c \in MapConns(connections) /\ conns[c].connected)
    /\ \A name \in NamesOf(c), tool \in ToolNames :
         CallToolCheck(connections, conns, name, tool) # ""

(***************************************************************************)
(* Properties of the transcript                                            *)
(***************************************************************************)
IsPrefix(a, b) == Len(a) <= Len(b) /\ SubSeq(b, 1, Len(a)) = a

\* one result was appended to one turn, nothing else changed
OneResultAdded(before, after) ==
  /\ Len(after) = Len(before)
  /\ \E i \in 1..Len(before) :
       /\ \A n \in 1..Len(before) : n # i => after[n] = before[n]
       /\ Len(after[i].toolResults) = Len(before[i].toolResults) + 1
       /\ [after[i] EXCEPT !.toolResults = before[i].toolResults] = before[i]
       /\ IsPrefix(before[i].toolResults, after[i].toolResults)

\* C24: every step of a chat call leaves the transcript it found as a prefix
\* of the transcript it leaves; any other change of the transcript is a
\* clearMessages, an addMessage or an executeToolManually made between the
\* chat calls.
C24_ChatOnlyAppends ==
  /\ [][chats' # chats => IsPrefix(messages, messages')]_vars
  /\ [][messages' # messages =>
          \/ IsPrefix(messages, messages')
          \/ ChatIdle /\ chats' = chats /\ messages' = <<>>
          \/ ChatIdle /\ chats' = chats /\ resolves' = resolves + 1
               /\ OneResultAdded(messages, messages')]_vars

\* a chat call that found a system turn returned after two LLM calls: the
\* system turn is still the first turn
C24_Witness ==
  /\ ChatReturned /\ chatDone.start = 1 /\ chatDone.llmCalls = 2
  /\ Len(messages) = 4 /\ messages[1].role = "system" /\ messages[2].role = "user"

(***************************************************************************)
(* The engine without execution observer (the second ChatEngine of         *)
(* part_005), as functions from the locals of a chat call, the transcript  *)
(* and the record of the last call to what they are after the next stretch *)
(* of synchronous code                                                     *)
(***************************************************************************)
PlainState(c, msgs, done) == [chat |-> c, messages |-> msgs, done |-> done]

\* the catch of executeToolCalls
PlainWithErrorResult(c, message) ==
  [c EXCEPT !.results = Append(@, [toolCallId |-> c.toolCalls[c.idx].id,
                                   content |-> <<"Error: ">> \o message,
                                   isError |-> TRUE]),
            !.idx = @ + 1]

\* executeToolCall probing the servers from position p on
PlainProbe(c, map, cs, p) ==
  LET q == ProbeFrom(map, cs, c.serverNames, p, c.toolCalls[c.idx].name) IN
  IF q = 0
  THEN [PlainWithErrorResult(c, <<"No server could execute tool ", c.toolCalls[c.idx].name>>)
          EXCEPT !.hubCalls = @ + (Len(c.serverNames) + 1 - p), !.pc = "next"]
  ELSE [c EXCEPT !.pc = "tool", !.probe = q,
                 !.hubCalls = @ + (q + 1 - p), !.requests = @ + 1]

\* executeToolCalls from the call at c.idx on
RECURSIVE PlainExecuteToolCalls(_, _, _)
PlainExecuteToolCalls(c, map, cs) ==
  IF c.idx > Len(c.toolCalls) THEN [c EXCEPT !.pc = "executed"]
  ELSE LET call == c.toolCalls[c.idx] IN
    IF ~JsonParse(call.arguments).ok
    THEN PlainExecuteToolCalls(PlainWithErrorResult(c, <<"SyntaxError">>), map, cs)
    ELSE IF call.name \notin Range(getAvailableTools(map, cs))
    THEN PlainExecuteToolCalls(
           PlainWithErrorResult(c, <<"Tool ", call.name, " not found">>), map, cs)
    ELSE LET probed == PlainProbe([c EXCEPT !.serverNames = getServerNames(map)], map, cs, 1)
         IN IF probed.pc = "tool" THEN probed ELSE PlainExecuteToolCalls(probed, map, cs)

\* the end of chat
PlainReturn(c, msgs, halted) ==
  PlainState(IdleChat, msgs,
             [NoChatDone EXCEPT !.op = "chat", !.outcome = "returned",
                !.text = c.finalResponse, !.ceiling = (c.turnCount >= c.maxTurns),
                !.halted = halted,
                !.maxTurns = c.maxTurns, !.auto = c.auto, !.start = c.start,
                !.llmCalls = c.llmCalls, !.hubCalls = c.hubCalls,
                !.requests = c.requests])

\* the head of the while loop
PlainLoopHead(c, msgs, done) ==
  IF c.turnCount < c.maxTurns
  THEN PlainState([c EXCEPT !.pc = "llm", !.turnCount = @ + 1, !.llmCalls = @ + 1,
                            !.content = "", !.toolCalls = <<>>, !.results = <<>>,
                            !.idx = 0, !.serverNames = <<>>, !.probe = 0,
                            !.input = msgs],
                  msgs, done)
  ELSE PlainReturn(c, msgs, FALSE)

\* chat after executeToolCalls moved on
PlainAfterExecute(c, msgs, done) ==
  IF c.pc = "tool" THEN PlainState(c, msgs, done)
  ELSE LET msg == Message("assistant", c.content, c.toolCalls, c.results)
       IN PlainLoopHead([c EXCEPT !.own = Append(@, msg)], Append(msgs, msg), done)

\* chat up to its first LLM call
PlainChatBegin(msgs, done, userInput, maxTurns, auto) ==
  LET msg == Message("user", userInput, <<>>, <<>>) IN
  PlainLoopHead([IdleChat EXCEPT !.maxTurns = maxTurns, !.auto = auto,
                                 !.start = Len(msgs), !.own = <<msg>>],
                Append(msgs, msg), done)

\* chat after llm.chat threw
PlainLlmThrows(c, msgs, done) ==
  PlainState(IdleChat, msgs,
             [NoChatDone EXCEPT !.op = "chat", !.outcome = "LlmError",
                !.maxTurns = c.maxTurns, !.auto = c.auto,
                !.start = c.start, !.llmCalls = c.llmCalls,
                !.hubCalls = c.hubCalls, !.requests = c.requests])

\* chat after llm.chat answered
PlainLlmAnswers(c0, msgs, done, issued, text, calls, map, cs) ==
  LET c == [c0 EXCEPT !.finalResponse = text, !.content = text,
                      !.toolCalls = WithIds(calls, issued)]
  IN IF Len(calls) = 0
     THEN PlainReturn(c, Append(msgs, Message("assistant", text, <<>>, <<>>)), FALSE)
     ELSE IF c.auto
     THEN PlainAfterExecute(PlainExecuteToolCalls([c EXCEPT !.idx = 1], map, cs), msgs, done)
     ELSE PlainReturn(c, Append(msgs, Message("assistant", text, c.toolCalls, <<>>)), TRUE)

\* executeToolCall after the tools/call of the probed server settled
PlainToolSettles(c, msgs, done, ok, response, map, cs) ==
  LET answered == [c EXCEPT !.results = Append(@, [toolCallId |-> c.toolCalls[c.idx].id,
                                                   content |-> FormatResponse(response),
                                                   isError |-> FALSE]),
                            !.idx = @ + 1]
      probed == PlainProbe(c, map, cs, c.probe + 1)
  IN PlainAfterExecute(IF ok THEN PlainExecuteToolCalls(answered, map, cs)
                       ELSE IF probed.pc = "tool" THEN probed
                       ELSE PlainExecuteToolCalls(probed, map, cs),
                       msgs, done)

\* what the engine without observer may be after its next stretch, from the
\* locals c of a suspended chat call
PlainSuccessors(c, msgs, done, issued, map, cs) ==
  IF c.pc = "llm"
  THEN {PlainLlmThrows(c, msgs, done)}
         \cup {PlainLlmAnswers(c, msgs, done, issued, text, calls, map, cs) :
                 text \in LlmTexts, calls \in LlmCallLists}
  ELSE IF c.pc = "tool"
  THEN {PlainToolSettles(c, msgs, done, ok, response, map, cs) :
          ok \in BOOLEAN, response \in ToolResponses}
  ELSE {}

\* what the engine without observer may be after a chat call was made
PlainBeginnings(msgs, done) ==
  {PlainChatBegin(msgs, done, userInput, maxTurns, auto) :
     userInput \in UserInputs, maxTurns \in 1..MaxTurnsOption, auto \in BOOLEAN}

(***************************************************************************)
(* Properties of the execution observer                                    *)
(***************************************************************************)
\* the locals of a chat call without what belongs to the observer
WithoutObserver(c) == [c EXCEPT !.observer = FALSE, !.notes = <<>>]

\* C25: every step of a chat call, made with or without an observer, is the
\* step the engine without observer makes from the same locals, transcript
\* and answer: the same LLM input and call counts, the same requests to the
\* hub, the same transcript and the same return value; only the
\* notifications differ.
C25_ObserverChangesNothing ==
  [][\A j \in ChatIds : chats'[j] # chats[j] =>
        \E r \in (IF chats[j].pc = "idle"
                  THEN PlainBeginnings(messages, chatDone)
                  ELSE PlainSuccessors(WithoutObserver(chats[j]), messages, chatDone,
                                       llmIssued, connections, conns)) :
          /\ WithoutObserver(chats'[j]) = r.chat
          /\ messages' = r.messages
          /\ chatDone' = r.done]_vars

\* a chat with an observer is at its second LLM call after a turn whose
\* first call failed to parse and whose second call a server answered: five
\* notifications were made
C25_Witness ==
  \E j \in ChatIds :
    /\ chats[j].observer /\ chats[j].pc = "llm" /\ chats[j].turnCount = 2
    /\ Len(chats[j].notes) = 5
    /\ chats[j].notes[2].type = "tool_error" /\ chats[j].notes[4].type = "tool_complete"
    /\ Len(Last(messages).toolResults) = 2

(***************************************************************************)
(* Properties of the batch runner: the concurrent path                     *)
(***************************************************************************)
\* C26: in the concurrent path every record has exactly one result, in the
\* order of the file, marked failed exactly when its processing failed; the
\* failure of a record costs no other record of the run its result.
C26_EveryRecordHasItsResult ==
  batch.maxConcurrency > 1 =>
    /\ \A i \in 1..Len(batch.results) :
         /\ batch.results[i].rec = i
         /\ batch.results[i].success = (i \notin batch.failed)
    /\ batch.pc \in {"save", "done"} => Len(batch.results) = Len(batch.questions)
    /\ batch.pc \in {"dispatch", "wait"} => Len(batch.results) = batch.chunkStart - 1

\* a run of three records in chunks of two ended: the first record failed,
\* the second, of the same chunk, and the third have their results
C26_Witness ==
  /\ batch.maxConcurrency = 2 /\ batch.pc = "done" /\ Len(batch.questions) = 3
  /\ batch.failed = {1} /\ Len(batch.results) = 3
  /\ ~batch.results[1].success /\ batch.results[2].success /\ batch.results[3].success

\* the first chunk that holds a failed record (0 when none does)
FirstFailedChunkEnd ==
  IF batch.failed = {} THEN 0
  ELSE LET f == CHOOSE x \in batch.failed : \A y \in batch.failed : x <= y
           chunk == (f - 1) \div batch.maxConcurrency
       IN Min((chunk + 1) * batch.maxConcurrency, Len(batch.questions))

\* C27: without continueOnError and with a concurrency limit above one, the
\* chunk in which a record failed is recorded in full and no record of a
\* later chunk is started.
C27_HaltsAfterFailedChunk ==
  (batch.maxConcurrency > 1 /\ ~batch.continueOnError /\ batch.failed # {}) =>
    /\ \A i \in 1..Len(batch.started) : batch.started[i] <= FirstFailedChunkEnd
    /\ batch.pc \in {"save", "done"} => Len(batch.results) = FirstFailedChunkEnd

(***************************************************************************)
(* The transport kinds addServer takes                                     *)
(***************************************************************************)
\* a descriptor that names a transport kind and carries what the kind needs
CompleteDescriptor(cfg) ==
  \/ cfg.type = "stdio" /\ cfg.command
  \/ cfg.type \in {"sse", "http"} /\ cfg.url

\* C28: addServer takes a stdio descriptor with a command, an sse descriptor
\* with a url and an http descriptor with a url: none of them is rejected for
\* its configuration, so the transport of each is opened.
C28_EveryTransportKindAccepted ==
  (hubDone.op = "add" /\ CompleteDescriptor(hubDone.cfg)) =>
    /\ hubDone.outcome # "ConfigurationError"
    /\ hubDone.opened > 0

\* what does hold: the stdio and sse descriptors are taken
StdioAndSseAccepted ==
  (hubDone.op = "add" /\ CompleteDescriptor(hubDone.cfg) /\ hubDone.cfg.type # "http") =>
    /\ hubDone.outcome # "ConfigurationError"
    /\ hubDone.opened > 0

(***************************************************************************)
(* The answer of a tool server in the result of its tool call              *)
(***************************************************************************)
\* the items a server may put in the content of its answer
EchoItems ==
  { [type |-> "text", text |-> "hi"], [type |-> "text", text |-> ""],
    [type |-> "image", text |-> ""] }

MaxItems == 2

\* the answers to tools/call: up to MaxItems items, with the server's own flag
EchoResponses ==
  { [content |-> items, isError |-> flag] :
      items \in UNION {[1..n -> EchoItems] : n \in 0..MaxItems}, flag \in BOOLEAN }

\* what the LLM answers: no tool call, or one call of the echoing tool
EchoCallLists == {calls \in LlmCallLists : \A i \in 1..Len(calls) : calls[i].name = "t1" /\ JsonParse(calls[i].arguments).ok}

\* the first chat of an engine in automatic mode whose servers answer with
\* these
EchoChatCallAwaited ==
  /\ ChatIdle /\ messages = <<>>
  /\ \E maxTurns \in {1, 2} : ChatStart(FreeChat, "q", maxTurns, TRUE)

EchoContinue ==
  \E j \in ChatIds :
    \/ LlmThrows(j)
    \/ \E calls \in EchoCallLists : LlmAnswers(j, "a", calls)
    \/ \E ok \in BOOLEAN, response \in EchoResponses : ToolSettles(j, ok, response)

NextEcho == EchoChatCallAwaited \/ EchoContinue

SpecEcho == InitChat /\ [][NextEcho]_vars

\* an item as the result shows it
Rendered(item) == IF item.type = "text" THEN item.text ELSE "[" \o item.type \o "]"

\* the pieces of parts.join('\n')
Joined(parts) ==
  [i \in 1..(2 * Len(parts) - 1) |-> IF i % 2 = 1 THEN parts[(i + 1) \div 2] ELSE "\n"]

\* every text item of the answer has a text
TextsPresent(r) ==
  \A i \in 1..Len(r.content) : r.content[i].type = "text" => r.content[i].text # ""

\* C29: when the server that takes the tools/call of a tool call answers with
\* one non-empty text item t and its error flag false, the result of the call
\* that reaches the assistant turn carries the identifier of the call, the
\* content t and the error flag false; an answer of several items gives the
\* texts joined by newlines, "[type]" standing for an item that is not text.
C29_EchoedTextIsTheResult ==
  [][\A j \in ChatIds : \A r \in EchoResponses :
       (chats[j].pc = "tool" /\ ToolSettles(j, TRUE, r)) =>
         LET n == chats[j].idx
             res == IF messages' = messages THEN chats'[j].results[n]
                    ELSE messages'[Len(messages')].toolResults[n]
         IN /\ res.toolCallId = chats[j].toolCalls[n].id
            /\ (Len(r.content) = 1 /\ r.content[1].type = "text"
                  /\ r.content[1].text # "" /\ ~r.isError) =>
                 /\ res.content = <<r.content[1].text>>
                 /\ ~res.isError
            /\ (r.content # <<>> /\ TextsPresent(r)) =>
                 res.content = Joined([i \in 1..Len(r.content) |-> Rendered(r.content[i])])]_vars

\* a chat returned whose first tool call, of input {"text":"hi"}, has the
\* result "hi", and whose second has a result that joins a text and an image
C29_Witness ==
  /\ ChatReturned
  /\ \E i \in 1..Len(messages) :
       /\ Len(messages[i].toolCalls) = 1 /\ Len(messages[i].toolResults) = 1
       /\ messages[i].toolCalls[1].arguments = "{\"text\":\"hi\"}"
       /\ messages[i].toolResults[1].content = <<"hi">>
       /\ ~messages[i].toolResults[1].isError
  /\ \E i \in 1..Len(messages) :
       /\ Len(messages[i].toolResults) = 1
       /\ messages[i].toolResults[1].content = <<"hi", "\n", "[image]">>

(***************************************************************************)
(* The order of the tool calls of one assistant turn                       *)
(***************************************************************************)
\* what the LLM answers: no tool call, two calls that servers take, or two
\* calls the first of which fails before a request is sent
SequenceCallLists ==
  { <<>>,
    <<[name |-> "t1", arguments |-> "{\"text\":\"hi\"}"],
      [name |-> "t2", arguments |-> "{\"text\":\"hi\"}"]>>,
    <<[name |-> "tx", arguments |-> "{\"text\":\"hi\"}"],
      [name |-> "t1", arguments |-> "{\"text\":\"hi\"}"]>>,
    <<[name |-> "t1", arguments |-> "{oops"],
      [name |-> "t2", arguments |-> "{\"text\":\"hi\"}"]>> }

\* the first chat of an engine in automatic mode
SequenceChatCallAwaited ==
  /\ ChatIdle /\ messages = <<>>
  /\ \E maxTurns \in 1..MaxTurnsOption : ChatStart(FreeChat, "q", maxTurns, TRUE)

SequenceContinue ==
  \E j \in ChatIds :
    \/ LlmThrows(j)
    \/ \E calls \in SequenceCallLists : LlmAnswers(j, "a", calls)
    \/ \E ok \in BOOLEAN, response \in ToolResponses : ToolSettles(j, ok, response)

NextSequence == SequenceChatCallAwaited \/ SequenceContinue

SpecSequence == InitChat /\ [][NextSequence]_vars

\* the identifiers of the tool calls of a list
IdsOf(calls) == {calls[n].id : n \in 1..Len(calls)}

\* the first n calls of the turn in hand have their results, in their order
SettledUpTo(c, n) ==
  /\ Len(c.results) = n
  /\ \A i \in 1..n : c.results[i].toolCallId = c.toolCalls[i].id

\* C30: the tool calls of one assistant turn are executed one at a time in
\* the order the LLM emitted them: while the request of call i is pending
\* exactly the calls before it have their results, in their order, and the
\* turn is not in the transcript; a step sends at most one request; the turn
\* is appended with the results of all its calls, in the order of the calls;
\* and the LLM is called again only in the step that appends it, with the
\* transcript that ends on it.
C30_ToolCallsRunInOrder ==
  /\ [](\A j \in ChatIds : chats[j].pc = "tool" =>
          /\ chats[j].idx \in 1..Len(chats[j].toolCalls)
          /\ SettledUpTo(chats[j], chats[j].idx - 1)
          /\ \A i \in 1..Len(messages) :
               IdsOf(messages[i].toolCalls) \cap IdsOf(chats[j].toolCalls) = {})
  /\ [](\A i \in 1..Len(messages) :
          (messages[i].role = "assistant" /\ messages[i].toolCalls # <<>>) =>
             Resolved(messages[i]))
  /\ [][\A j \in ChatIds :
          /\ chats'[j].requests <= chats[j].requests + 1
          /\ (chats'[j].requests = chats[j].requests + 1 /\ chats[j].pc = "tool") =>
               \/ chats'[j].idx = chats[j].idx /\ chats'[j].results = chats[j].results
               \/ /\ chats'[j].idx > chats[j].idx
                  /\ chats'[j].toolCalls = chats[j].toolCalls
                  /\ SettledUpTo(chats'[j], chats'[j].idx - 1)
          /\ (chats[j].pc = "tool" /\ chats'[j].pc # "tool") =>
               /\ Len(messages') = Len(messages) + 1
               /\ Last(messages').toolCalls = chats[j].toolCalls
               /\ Resolved(Last(messages'))
               /\ SubSeq(Last(messages').toolResults, 1, Len(chats[j].results))
                    = chats[j].results
          /\ (chats[j].llmCalls >= 1 /\ chats'[j].llmCalls = chats[j].llmCalls + 1) =>
               /\ Len(messages') = Len(messages) + 1
               /\ Last(messages').role = "assistant"
               /\ Last(messages').toolCalls # <<>>
               /\ Resolved(Last(messages'))
               /\ chats'[j].input = messages']_vars

\* two servers answered the two calls of a turn one after the other, and the
\* LLM was called again
C30_Witness ==
  /\ ChatReturned /\ chatDone.llmCalls = 2 /\ chatDone.requests = 2
  /\ Len(messages) = 3
  /\ Len(messages[2].toolCalls) = 2 /\ Resolved(messages[2])
  /\ ~messages[2].toolResults[1].isError /\ ~messages[2].toolResults[2].isError
  /\ messages[3].toolCalls = <<>>

(***************************************************************************)
(* The servers a tool call is tried on                                     *)
(***************************************************************************)
\* the first position from p on of a server whose callTool sends the request
\* (0 when there is none)
FirstAccepting(names, p, toolName) ==
  LET hits == {q \in p..Len(names) : CallToolCheck(connections, conns, names[q], toolName) = ""}
  IN IF hits = {} THEN 0 ELSE CHOOSE q \in hits : \A m \in hits : q <= m

\* C31: a tool call is tried on the servers in the order of getServerNames:
\* the request pends on the first server whose callTool did not throw before
\* sending; when it succeeds the call has its result without error flag and
\* no further server is tried; when it fails the next server in the order
\* that takes the request is tried; and when none is left the call gets the
\* result "No server could execute tool" with the error flag.
C31_ProbesInRegistrationOrder ==
  /\ [](\A j \in ChatIds : chats[j].pc = "tool" =>
          /\ chats[j].serverNames = getServerNames(connections)
          /\ chats[j].probe \in 1..Len(chats[j].serverNames)
          /\ CallToolCheck(connections, conns, chats[j].serverNames[chats[j].probe],
                           chats[j].toolCalls[chats[j].idx].name) = "")
  /\ [][\A j \in ChatIds :
          LET c == chats[j]
              d == chats'[j]
              res(n) == IF messages' = messages THEN d.results[n]
                        ELSE messages'[Len(messages')].toolResults[n]
          IN /\ (d.pc = "tool" /\ (c.pc # "tool" \/ d.idx # c.idx)) =>
                  d.probe = FirstAccepting(d.serverNames, 1, d.toolCalls[d.idx].name)
             /\ c.pc = "tool" => \A r \in ToolResponses :
                  /\ ToolSettles(j, TRUE, r) =>
                       /\ ~res(c.idx).isError
                       /\ res(c.idx).toolCallId = c.toolCalls[c.idx].id
                       /\ ~(d.pc = "tool" /\ d.idx = c.idx)
                  /\ ToolSettles(j, FALSE, r) =>
                       LET q == FirstAccepting(c.serverNames, c.probe + 1,
                                               c.toolCalls[c.idx].name)
                       IN IF q # 0
                          THEN /\ d.pc = "tool" /\ d.idx = c.idx /\ d.probe = q
                               /\ d.results = c.results
                               /\ d.requests = c.requests + 1
                               /\ d.hubCalls = c.hubCalls + (q - c.probe)
                          ELSE /\ res(c.idx).isError
                               /\ res(c.idx).toolCallId = c.toolCalls[c.idx].id
                               /\ res(c.idx).content
                                    = <<"Error: ", "No server could execute tool ",
                                        c.toolCalls[c.idx].name>>]_vars

\* the request of the one tool call of a chat failed on the first server and
\* succeeded on the second
C31_Witness ==
  /\ ChatReturned /\ chatDone.llmCalls = 2 /\ chatDone.requests = 2
  /\ chatDone.hubCalls = 2
  /\ Len(NewTurns) = 3 /\ Len(NewTurns[2].toolCalls) = 1
  /\ Len(NewTurns[2].toolResults) = 1 /\ ~NewTurns[2].toolResults[1].isError

(***************************************************************************)
(* What the execution observer is told                                     *)
(***************************************************************************)
\* the notifications about single calls, and those about a whole turn
PerCall(n) == n.toolCallId # 0
PerCallStart(n) == PerCall(n) /\ n.type = "tool_start"
PerCallEnd(n) == PerCall(n) /\ n.type \in {"tool_complete", "tool_error"}

\* the per-call notifications of a list are in the order of the identifiers,
\* a start and then one completion or error for each identifier, and none
\* about a call before the turn's start notification
InProtocolOrder(notes) ==
  /\ notes # <<>> => (notes[1].type = "tool_start" /\ ~PerCall(notes[1]))
  /\ \A p \in 1..Len(notes) : PerCallEnd(notes[p]) =>
       /\ p > 1 /\ PerCallStart(notes[p - 1])
       /\ notes[p - 1].toolCallId = notes[p].toolCallId
  /\ \A p \in 1..Len(notes), q \in 1..Len(notes) :
       (p < q /\ PerCall(notes[p]) /\ PerCall(notes[q])) =>
          notes[p].toolCallId <= notes[q].toolCallId
  /\ \A p \in 1..Len(notes), q \in 1..Len(notes) :
       (p < q /\ PerCallEnd(notes[p]) /\ PerCallEnd(notes[q])) =>
          notes[p].toolCallId # notes[q].toolCallId

\* C32: the observer is told of the start of the turn's tool execution first,
\* then for each tool call in the order of emission of its start and after it
\* of its one completion or error, and no completion or error reaches it for
\* a call whose start it was not told of.
C32_NotifiedInProtocolOrder ==
  \A j \in ChatIds : chats[j].observer => InProtocolOrder(chats[j].notes)

\* what holds: the same for the calls whose arguments parse; the error of a
\* call whose arguments do not parse is notified without a start
ParsedCallsInProtocolOrder ==
  \A j \in ChatIds : chats[j].observer =>
    LET emitted == {chats[j].toolCalls[n] : n \in 1..Len(chats[j].toolCalls)}
                     \cup UNION {{messages[i].toolCalls[n] : n \in 1..Len(messages[i].toolCalls)} :
                                   i \in 1..Len(messages)}
        unparsed == {call.id : call \in {e \in emitted : ~JsonParse(e.arguments).ok}}
    IN InProtocolOrder(SelectSeq(chats[j].notes, LAMBDA n : n.toolCallId \notin unparsed))

(***************************************************************************)
(* The chunks of the concurrent path                                       *)
(***************************************************************************)
\* the chunk chunkArray puts record r in, counted from 0
ChunkOf(r) == (r - 1) \div batch.maxConcurrency

\* processQuestion was called for the record; it returned for the record
Dispatched(r) == \E i \in 1..Len(batch.started) : batch.started[i] = r
HasSettled(r) ==
  \/ batch.settled[r].rec = r
  \/ \E i \in 1..Len(batch.results) : batch.results[i].rec = r

InFlight == {r \in 1..Len(batch.questions) : Dispatched(r) /\ ~HasSettled(r)}

\* C33: with a concurrency limit C above one the records are taken in
\* consecutive chunks of at most C: the records in flight are at most C, all
\* of one chunk, and a record is dispatched only when every record of the
\* chunks before its own has settled.
C33_OneChunkInFlight ==
  batch.maxConcurrency > 1 =>
    /\ Cardinality(InFlight) <= batch.maxConcurrency
    /\ \A r \in InFlight, s \in InFlight : ChunkOf(r) = ChunkOf(s)
    /\ \A i \in 1..Len(batch.started) : batch.started[i] = i
    /\ \A r \in 1..Len(batch.questions), s \in 1..Len(batch.questions) :
         (Dispatched(r) /\ ChunkOf(s) < ChunkOf(r)) => HasSettled(s)

\* the two records of the first chunk are in flight, the third waits
C33_Witness ==
  /\ batch.maxConcurrency = 2 /\ Len(batch.questions) = 3
  /\ InFlight = {1, 2} /\ ~Dispatched(3)

(***************************************************************************)
(* The order of the batch results                                          *)
(***************************************************************************)
\* the result list grows at its end only, within one run of processFromFile
ResultsAppendOnly ==
  [][batch.pc # "idle" /\ batch.pc # "done" => IsPrefix(batch.results, batch'.results)]_vars

\* C34 as stated: within a run the result list is append-only, and under
\* concurrent execution the results are in the order in which the records
\* settled.
C34_ResultsInArrivalOrder ==
  /\ ResultsAppendOnly
  /\ [](batch.maxConcurrency > 1 =>
          \A i \in 1..Len(batch.results) : batch.results[i].rec = batch.arrived[i])

\* C34 amended: within a run the result list is append-only, and under
\* concurrent execution the results of a chunk are appended together when
\* the last record of the chunk has settled, in the order of submission,
\* whatever the order in which the records settled.
C34_ResultsInSubmissionOrder ==
  /\ ResultsAppendOnly
  /\ [](batch.maxConcurrency > 1 =>
          /\ \A i \in 1..Len(batch.results) : batch.results[i].rec = i
          /\ \A r \in 1..Len(batch.questions) :
               (batch.chunkStart <= r /\ r <= batch.chunkEnd /\ batch.pc \in {"dispatch", "wait"})
                  => Len(batch.results) < r)

\* the second record of a chunk settled before the first, and the results
\* are those of the first and of the second
C34_Witness ==
  /\ batch.maxConcurrency > 1 /\ Len(batch.results) >= 2
  /\ batch.arrived[1] = 2 /\ batch.arrived[2] = 1
  /\ batch.results[1].rec = 1 /\ batch.results[2].rec = 2

(***************************************************************************)
(* The report of the ceiling                                               *)
(***************************************************************************)
\* the chat that returned was cut by the ceiling: its last LLM response, the
\* maxTurns-th, asked for tools, which were executed
CutByCeiling ==
  /\ chatDone.auto /\ Last(messages).toolCalls # <<>>
  /\ chatDone.llmCalls = chatDone.maxTurns

\* C35: the ceiling is reported exactly when it cut the loop; a chat that
\* ends on a response without tool calls, or halts in manual mode, is not
\* reported as having reached the ceiling, even at its maxTurns-th LLM call.
C35_CeilingReportedOnlyWhenCut ==
  ChatReturned => (chatDone.ceiling <=> CutByCeiling)

\* what holds: the ceiling is reported exactly when the chat made maxTurns
\* LLM calls, which a cut chat did
CeilingReportedAtMaxTurns ==
  ChatReturned =>
    /\ chatDone.ceiling <=> (chatDone.llmCalls = chatDone.maxTurns)
    /\ CutByCeiling => chatDone.ceiling

(***************************************************************************)
(* The error flag of a tool result                                         *)
(***************************************************************************)
\* answers to tools/call that show the flag of the server in their text
FlaggedResponses ==
  { [content |-> <<[type |-> "text", text |-> "hi"]>>, isError |-> FALSE],
    [content |-> <<[type |-> "text", text |-> "no"]>>, isError |-> TRUE] }

FlaggedContinue ==
  \E j \in ChatIds :
    \/ LlmThrows(j)
    \/ \E text \in LlmTexts, calls \in LlmCallLists : LlmAnswers(j, text, calls)
    \/ \E ok \in BOOLEAN, response \in FlaggedResponses : ToolSettles(j, ok, response)

NextFlagged == ChatCallAwaited \/ FlaggedContinue

SpecFlagged == InitChat /\ [][NextFlagged]_vars

\* the results of the turn in hand after a step of chat j
TurnResults(j) ==
  IF messages' = messages THEN chats'[j].results
  ELSE messages'[Len(messages')].toolResults

\* C36: the result of a tool call has the error flag exactly when no server
\* took the call: its arguments did not parse, no server offers the tool, or
\* callTool threw on every server tried; the result of a call a server
\* answered has the flag false, whatever flag the server set in its answer.
C36_ErrorFlagIsTheOrchestrators ==
  /\ [](\A i \in 1..Len(messages) : \A n \in 1..Len(messages[i].toolResults) :
          (FailsParsing(messages[i].toolCalls[n]) \/ AbsentEverywhere(messages[i].toolCalls[n]))
             => messages[i].toolResults[n].isError)
  /\ [][\A j \in ChatIds :
          LET c == chats[j]
              calls == IF c.pc = "tool" THEN c.toolCalls
                       ELSE IF messages' # messages THEN messages'[Len(messages')].toolCalls
                       ELSE chats'[j].toolCalls
              first == IF c.pc = "tool" THEN c.idx + 1 ELSE 1
          IN /\ c.pc = "tool" => \A r \in FlaggedResponses :
                  /\ ToolSettles(j, TRUE, r) => ~TurnResults(j)[c.idx].isError
                  /\ (ToolSettles(j, FALSE, r) /\ Len(TurnResults(j)) >= c.idx) =>
                       /\ TurnResults(j)[c.idx].isError
                       /\ FirstAccepting(c.serverNames, c.probe + 1, c.toolCalls[c.idx].name) = 0
             /\ c.pc \in {"tool", "llm"} =>
                  \A n \in first..Len(TurnResults(j)) :
                    /\ TurnResults(j)[n].isError
                    /\ \/ FailsParsing(calls[n])
                       \/ AbsentEverywhere(calls[n])
                       \/ FirstAccepting(getServerNames(connections), 1, calls[n].name) = 0]_vars

\* a server answered a call with its own error flag set, and the result of
\* the call has the flag false
C36_Witness ==
  /\ ChatReturned
  /\ \E i \in 1..Len(messages) :
       /\ Len(messages[i].toolResults) = 1
       /\ messages[i].toolResults[1].content = <<"no">>
       /\ ~messages[i].toolResults[1].isError

(***************************************************************************)
(* Hub calls that overlap                                                  *)
(***************************************************************************)
\* addServer called while another addServer is awaiting its transport or its
\* discovery: nothing in the hub holds the second call back
AddServerOverlapping ==
  /\ TaskFree
  /\ \E name \in ChangingServers, cfg \in ChangingConfigs : AddServerStart(FreeTask, name, cfg)

AddServerContinue ==
  \E k \in TaskIds :
    \/ \E closeOk \in BOOLEAN : DisconnectConnectionSettle(k, closeOk)
    \/ RemoveServerDelete(k)
    \/ \E ok \in BOOLEAN : ConnectSettle(k, ok)
    \/ \E toolsOk \in BOOLEAN, tools \in Catalogs,
          resourcesOk \in BOOLEAN, resources \in ResourceCatalogs :
         DiscoverSettle(k, toolsOk, tools, resourcesOk, resources)

NextHubOverlap == AddServerOverlapping \/ AddServerContinue

SpecHubOverlap == InitHub /\ [][NextHubOverlap]_vars

\* the sessions that are connected and that no name of the map leads to
Unreachable == {c \in ConnIds : conns[c].connected /\ c \notin MapConns(connections)}

\* C37: with addServer calls that overlap, every session that was opened is
\* the one registered in the map or has been closed: no connected session is
\* left outside the map.
C37_NoSessionLeftOutsideTheMap ==
  Unreachable = {}

(***************************************************************************)
(* disconnect while a server is added                                      *)
(***************************************************************************)
\* disconnect called at any time, also while an addServer is in flight, and
\* addServer while disconnect is awaiting the closes; the addServer calls
\* themselves one after the other
NoDisconnect == \A k \in TaskIds : hubTasks[k].op # "disconnect"

DisconnectAnyTime == TaskFree /\ NoDisconnect /\ DisconnectStart(FreeTask)

AddServerDuring ==
  /\ NoMutation /\ TaskFree
  /\ \E name \in ServerNames, cfg \in ChangingConfigs : AddServerStart(FreeTask, name, cfg)

\* a continuation that is already queued, the clear of disconnect after the
\* last close or the delete of removeServer, runs before any answer of a
\* server is handled
ResumptionQueued ==
  \E k \in TaskIds :
    \/ hubTasks[k].pc = "closeAll" /\ hubTasks[k].closing = {}
    \/ hubTasks[k].pc = "delete"

ShutdownResumes == \E k \in TaskIds : DisconnectClear(k) \/ RemoveServerDelete(k)

ShutdownAnswered ==
  /\ ~ResumptionQueued
  /\ \E k \in TaskIds :
       \/ \E closeOk \in BOOLEAN : DisconnectConnectionSettle(k, closeOk)
       \/ \E ok \in BOOLEAN : ConnectSettle(k, ok)
       \/ \E toolsOk \in BOOLEAN, tools \in Catalogs,
             resourcesOk \in BOOLEAN, resources \in ResourceCatalogs :
            DiscoverSettle(k, toolsOk, tools, resourcesOk, resources)
       \/ \E c \in ConnIds, closeOk \in BOOLEAN : DisconnectCloseSettle(k, c, closeOk)

NextHubShutdown ==
  AddServerDuring \/ DisconnectAnyTime \/ ShutdownResumes \/ ShutdownAnswered

SpecHubShutdown == InitHub /\ [][NextHubShutdown]_vars

\* C38: after disconnect() returned, every session the hub opened and has
\* not closed is still in the map: the clear at its end drops no session
\* that an addServer registered while the closes were awaited.
C38_ClearDropsNoOpenSession ==
  (hubDone.op = "disconnect" /\ hubDone.sessions # {}) => Unreachable = {}

(***************************************************************************)
(* The order of the server names                                           *)
(***************************************************************************)
\* the session of the server connected at start-up; the sessions opened
\* afterwards are those of ConnIds
StartupConn == MaxConns + 1

\* a hub whose start-up connected s1, which offers t1
InitHubReorder ==
  /\ ChatInit /\ BatchInit
  /\ connections = <<[name |-> "s1", conn |-> StartupConn]>>
  /\ conns = [c \in ConnIds \cup {StartupConn} |->
                IF c = StartupConn
                THEN [client |-> "open", connected |-> TRUE,
                      tools |-> <<"t1">>, resources |-> <<>>]
                ELSE NoConn]
  /\ hubTasks = [k \in TaskIds |-> IdleTask]
  /\ hubDone = NoneDone
  /\ registered = <<[name |-> "s1", tools |-> <<"t1">>]>>

\* servers added again and removed, each call awaited before the next
ReAddServerAwaited ==
  HubIdle /\ \E name \in ServerNames, cfg \in ChangingConfigs :
               AddServerStart(FreeTask, name, cfg)

NextHubReorder == ReAddServerAwaited \/ RemoveServerAwaited \/ AddServerContinue

SpecHubReorder == InitHubReorder /\ [][NextHubReorder]_vars

\* the server executeToolCall reaches first for a tool ("" when none takes it)
FirstServerFor(toolName) ==
  LET names == getServerNames(connections)
      q == FirstAccepting(names, 1, toolName)
  IN IF q = 0 THEN "" ELSE names[q]

\* the names in their order, one of them left out
NamesWithout(map, name) == SelectSeq(getServerNames(map), LAMBDA n : n # name)

\* C39: getServerNames gives the names in the order of their latest
\* successful addServer: an addServer that succeeds puts its name last, also
\* when the name was registered, and leaves the order of the others; the
\* server tried first for a tool that another server offers too is then not
\* the one that was added again.
C39_ReAddedNameGoesLast ==
  [][\A k \in TaskIds :
       (hubTasks[k].op = "add" /\ hubTasks'[k].op = "idle" /\ hubDone'.outcome = "ok") =>
          LET name == hubTasks[k].name IN
          /\ getServerNames(connections')
               = Append(NamesWithout(hubTasks[k].pre.connections, name), name)
          /\ \A t \in ToolNames :
               (\E i \in 1..(Len(connections') - 1) :
                   CallToolCheck(connections', conns', connections'[i].name, t) = "")
                 => FirstServerFor(t)' # name]_vars

\* s1, connected first, was added again while s2 was registered: s2 is now
\* tried first for the tool both offer
C39_Witness ==
  /\ HubIdle /\ hubDone.op = "add" /\ hubDone.outcome = "ok"
  /\ hubDone.name = "s1" /\ hubDone.old # 0
  /\ getServerNames(connections) = <<"s2", "s1">>
  /\ "t1" \in Range(conns[GetConn(connections, "s1")].tools)
  /\ FirstServerFor("t1") = "s2"

(***************************************************************************)
(* A chat whose LLM call throws                                            *)
(***************************************************************************)
ChatThrew == ChatIdle /\ chatDone.op = "chat" /\ chatDone.outcome = "LlmError"

\* C40: when llm.chat throws, chat throws and takes nothing back: the
\* transcript is the one handed to the failed LLM call, with the user turn of
\* this chat and the assistant turns of its earlier rounds, each with its
\* tool calls and their results, and no turn for the failed call.
C40_LlmErrorRollsNothingBack ==
  /\ [][\A j \in ChatIds :
          (chats[j].pc = "llm" /\ chats'[j].pc # "llm" /\ chatDone'.outcome = "LlmError") =>
             /\ messages' = messages
             /\ messages = chats[j].input
             /\ SubSeq(messages, chats[j].start + 1, Len(messages)) = chats[j].own]_vars
  /\ [](ChatThrew =>
          /\ Len(NewTurns) = chatDone.llmCalls
          /\ NewTurns[1] = Message("user", "q", <<>>, <<>>)
          /\ \A i \in 2..Len(NewTurns) :
               /\ NewTurns[i].role = "assistant"
               /\ NewTurns[i].toolCalls # <<>>
               /\ Resolved(NewTurns[i]))

\* the second LLM call of a chat threw: the transcript holds the user turn
\* and the assistant turn of the first round with its results
C40_Witness ==
  /\ ChatThrew /\ chatDone.llmCalls = 2 /\ chatDone.start = 0
  /\ Len(messages) = 2 /\ messages[1].role = "user"
  /\ messages[2].role = "assistant" /\ Len(messages[2].toolResults) = 2

====
